---- MODULE Spec2Model ----
(***************************************************************************)
(* Real-time call coaching core: the inbound audio path                    *)
(* (audio/stream_handler.py, audio/features.py), the rule engine           *)
(* (coaching/engine.py, coaching/rules.py, coaching/messages.py), the      *)
(* throttler (utils/throttling.py) and the processing loop                 *)
(* (processing_loop.py, api/websocket.py).                                 *)
(*                                                                         *)
(* Spec          one coaching session: audio events and evaluations        *)
(* SpecEngine    the engine alone, with rule predicates that may raise     *)
(* SpecThrottler the throttler's two functions on their own                *)
(* SpecLoop      one tick after another of the loop over two sessions      *)
(* SpecLoopLive  the loop as a task: failing ticks, stop(), fairness       *)
(* SpecWebhooks  the Twilio webhooks creating and ending sessions          *)
(* SpecSessions  the loop over two sessions that receive audio             *)
(* SpecFeatures  extract_audio_features and the chunk handler on chunks    *)
(*               that are empty or do not decode                           *)
(* SpecRules     the engine on sessions whose metrics have been written    *)
(* SpecLoudness  the engine on agent chunks of every loudness              *)
(* SpecStream    a stream that delivers chunks without a long pause        *)
(* SpecTicks     the loop's ticks, counting how long a rule waits          *)
(* SpecHandler   the chunk handler statement by statement                  *)
(* SpecObservers the loop while UI clients connect and disconnect          *)
(* SpecSockets   the connection manager's calls interleaved at awaits      *)
(* SpecRunner    start() and stop() of the loop and the tasks they make    *)
(*                                                                         *)
(* Time is the value of time.time() in whole seconds.  A chunk is          *)
(* represented by the loudness (dB) its decoded samples have; every chunk  *)
(* carries ChunkSamples samples.                                           *)
(***************************************************************************)
EXTENDS Integers, Sequences, FiniteSets, TLC

\* ------------------------------------------------------------------ bounds
\* Latest clock value explored.
MaxTime == 16
\* Largest number of chunks kept in the two channel buffers together.
MaxChunkEvents == 3
\* Latest clock value explored when only the engine acts on the session.
MaxEngineTime == 25
\* Latest current_time handed to the throttler on its own.
MaxThrottlerTime == 32
\* Latest clock value explored while the processing loop runs.
MaxLoopTime == 5
\* Largest number of sessions the webhooks create for one call.
MaxSessionsCreated == 3
\* Largest number of chunks kept in the buffers of the two sessions together.
MaxSessionChunks == 1
\* Longest window handed to extract_audio_features on its own.
MaxFeatureBuffer == 2
\* Latest clock value explored when the engine is handed given metrics.
MaxRulesTime == 6

\* The steady stream: the clock's last value and the most chunks it delivers.
MaxStreamTime == 6
MaxStreamChunks == 4
\* Most ticks in a row counted as passing a rule over.
MaxPassedOver == 7
\* Most UI sockets the server is handed for the session id.
MaxWebsockets == 2
\* Most tasks made of _run_loop.
MaxLoopTasks == 4

\* ---------------------------------------------------------------- settings
\* config.py Settings.  Every field is read from the environment; the model
\* runs with AUDIO_CHUNK_SIZE_MS=2500 (a window bound of 2 chunks instead of
\* the 100 of the default 50 ms) and every other field at its default.
audio_sample_rate == 8000
audio_chunk_size_ms == 2500
sliding_window_seconds == 5
agent_wpm_threshold_fast == 160
agent_volume_threshold_loud == -20
agent_volume_threshold_soft == -50
silence_threshold_seconds == 3

\* stream_handler.py imports json, base64, logger, audio.features, audio.vad
\* and session_manager, and never imports `settings`: the name is unbound in
\* that module, so evaluating it raises NameError.
stream_handler_settings_bound == FALSE

\* ------------------------------------------------------------------ inputs
\* Loudness of the chunks offered: digital silence and loud speech.
ChunkLevels == {-60, -10}
\* media.payload: absent or empty, or the encoding of one chunk.
NoPayload == <<>>
Payloads == {NoPayload} \cup {<<level>> : level \in ChunkLevels}
\* base64.b64decode(payload)
b64decode(payload) == payload[1]
Tracks == {"inbound", "outbound"}
\* The stream the session is bound to, and a stream no session is bound to.
session_stream_sid == "MZ-session"
StreamSids == {session_stream_sid, "MZ-unknown"}
\* The rules whose predicate raises during one evaluate_session call.
RaisingSets == {{}, {"TEST_RULE"}, {"TOO_MUCH_SILENCE"}}
\* Samples in one chunk (8-bit mu-law, one byte per sample).
ChunkSamples == (audio_sample_rate * audio_chunk_size_ms) \div 1000

\* ----------------------------------------------------------- session state
\* The session starts at this clock value (CoachingSession.created_at).
created_at == 1

VARIABLES
    now,                    \* time.time()
    is_active,              \* session.is_active
    agent_audio_buffer,     \* session.agent_audio_buffer
    customer_audio_buffer,  \* session.customer_audio_buffer
    metrics,                \* session.metrics
    active_rules,           \* session.active_rules: rule name -> last firing
    last_suggestion_time,   \* session.last_suggestion_time
    last_suggestion_type,   \* session.last_suggestion_type
    last,                   \* the handler call of the latest step and its locals
    throttle,               \* the latest direct call of the throttler
    sessions,               \* session_manager: session id -> session, for the loop
    ui_connections,         \* manager.ui_connections (its keys)
    loop,                   \* ProcessingLoop: position and locals of its tick
    session_store,          \* session_manager: the sessions the webhooks made
    call_state,             \* per call: what Twilio has reported of it so far
    features,               \* the latest direct call of extract_audio_features
    chunk_task,             \* _process_audio_chunk: position and locals of a call
    passed_over,            \* per rule: the ticks in a row that found it eligible
                            \* and fired another rule
    manager,                \* ConnectionManager: ui_connections[session_id] and
                            \* active_sessions, for one session id
    ui_calls,               \* per coroutine: its call of the manager under way
    websockets,             \* the UI sockets the server has been handed so far
    processing_loop,        \* ProcessingLoop: is_running and loop_task
    loop_tasks,             \* the tasks asyncio.create_task made of _run_loop
    lifecycle               \* the latest call of start() or stop()

vars == <<now, is_active, agent_audio_buffer, customer_audio_buffer, metrics,
          active_rules, last_suggestion_time, last_suggestion_type, last,
          throttle, sessions, ui_connections, loop, session_store, call_state,
          features, chunk_task, passed_over, manager, ui_calls, websockets,
          processing_loop, loop_tasks, lifecycle>>

session_vars == <<is_active, agent_audio_buffer, customer_audio_buffer, metrics,
                  active_rules, last_suggestion_time, last_suggestion_type>>

\* What the handlers of one session leave alone.
loop_vars == <<sessions, ui_connections, loop>>
webhook_vars == <<session_store, call_state>>
\* The handlers that are modelled step by step.
tick_vars == <<passed_over>>
socket_vars == <<manager, ui_calls, websockets>>
runner_vars == <<processing_loop, loop_tasks, lifecycle>>
task_vars == <<chunk_task, tick_vars, socket_vars, runner_vars>>
service_vars == <<throttle, loop_vars, webhook_vars, features, task_vars>>

\* The sessions the processing loop serves, in the order of their creation.
SessionOrder == <<"CA-a", "CA-b">>
SessionIds == {SessionOrder[i] : i \in DOMAIN SessionOrder}

\* Channel metrics of a freshly created session: the silence defaults.
DefaultAudioMetrics == [volume_db |-> -60, wpm |-> 0, is_speaking |-> FALSE]

NoCall == [op |-> "idle", stream_sid |-> "-", track |-> "-", payload |-> NoPayload,
           suggestions |-> <<>>, created |-> <<>>, last_trigger_time |-> 0,
           raising |-> {}, raised |-> FALSE]

\* No direct call of the throttler has been made.
NoThrottlerCall == [rule_name |-> "-", last_trigger_time |-> 0, current_time |-> 0,
                    can_trigger |-> TRUE, remaining |-> 0]

\* A session right after its creation.
InitSession ==
    /\ now = created_at
    /\ is_active = TRUE
    /\ agent_audio_buffer = <<>>
    /\ customer_audio_buffer = <<>>
    /\ metrics = [agent |-> DefaultAudioMetrics,
                  customer |-> DefaultAudioMetrics,
                  interruptions |-> 0,
                  last_update_time |-> created_at]
    /\ active_rules = <<>>
    /\ last_suggestion_time = 0
    /\ last_suggestion_type = "None"
    /\ last = NoCall

\* The processing loop before its first tick.
IdleLoop == [pc |-> "sleep", active_sessions |-> <<>>, remaining |-> <<>>,
             current |-> "-", emitted |-> {}, outcome |-> <<>>]

\* The calls Twilio reports and the media stream of each.
CallSids == {"CA-a", "CA-b"}
StreamOfCall == [call_sid \in CallSids |->
                    IF call_sid = "CA-a" THEN "MZ-a" ELSE "MZ-b"]

\* Two sessions right after their creation, each bound to the stream of its
\* call and with its UI connected.
InitLoop ==
    /\ sessions = [session_id \in SessionIds |->
                      [is_active |-> TRUE, active_rules |-> <<>>,
                       last_suggestion_time |-> 0, last_suggestion_type |-> "None",
                       stream_sid |-> StreamOfCall[session_id],
                       agent_audio_buffer |-> <<>>,
                       customer_audio_buffer |-> <<>>,
                       metrics |-> [agent |-> DefaultAudioMetrics,
                                    customer |-> DefaultAudioMetrics,
                                    interruptions |-> 0,
                                    last_update_time |-> created_at]]]
    /\ ui_connections = SessionIds
    /\ loop = IdleLoop

\* The stream identifier of a session no stream has been bound to.
NoStream == "None"

\* The session manager holds no session and no webhook has arrived.
InitWebhooks ==
    /\ session_store = {}
    /\ call_state = [call_sid \in CallSids |->
                        [begun |-> FALSE, ended |-> FALSE, created |-> 0]]

\* No call of _process_audio_chunk is under way.
NoChunkTask == [pc |-> "idle", track |-> "-", audio_chunk |-> -60]

\* The names of the rules of ALL_RULES.
RuleNames == {"TEST_RULE", "SPEAKING_TOO_FAST", "SPEAKING_TOO_LOUD",
              "SPEAKING_TOO_SOFT", "INTERRUPTING_CUSTOMER", "TOO_MUCH_SILENCE"}

\* The coroutines that call the connection manager for the session id: the
\* handlers of two UI clients and the processing loop.
UiCoroutines == {"websocket_ui-1", "websocket_ui-2", "processing_loop"}

\* No socket is registered for the session id.
NoSocket == 0

\* The coroutine is in no call of the manager.
NoUiCall == [op |-> "-", pc |-> "idle", websocket |-> NoSocket]

\* ConnectionManager.__init__
InitSockets ==
    /\ manager = [ui_connection |-> NoSocket, in_active_sessions |-> FALSE]
    /\ ui_calls = [coroutine \in UiCoroutines |-> NoUiCall]
    /\ websockets = 0

\* No task has been made of _run_loop.
NoTask == 0

\* The positions of a task of _run_loop that has ended.
TaskEnded == {"finished", "cancelled"}

\* Neither start() nor stop() has been called.
NoLifecycleCall == [op |-> "-", pc |-> "returned", created |-> NoTask]

\* ProcessingLoop.__init__
InitRunner ==
    /\ processing_loop = [is_running |-> FALSE, loop_task |-> NoTask]
    /\ loop_tasks = <<>>
    /\ lifecycle = NoLifecycleCall

InitTasks ==
    /\ chunk_task = NoChunkTask
    /\ passed_over = [rule_name \in RuleNames |-> 0]
    /\ InitSockets
    /\ InitRunner

\* No direct call of extract_audio_features has been made.
NoFeaturesCall == [called |-> FALSE, audio_chunk |-> -60, audio_buffer |-> <<>>,
                   result |-> DefaultAudioMetrics]

Init ==
    /\ InitSession
    /\ throttle = NoThrottlerCall
    /\ InitLoop
    /\ InitWebhooks
    /\ features = NoFeaturesCall
    /\ InitTasks

\* The clock advances between two handler calls.
AdvanceTime ==
    /\ now < MaxTime
    /\ now' = now + 1
    /\ last' = NoCall
    /\ UNCHANGED session_vars
    /\ UNCHANGED service_vars

\* ----------------------------------------------------- feature extraction
\* Two chunks without loudness: one of no bytes, and one whose bytes
\* audioop.ulaw2lin rejects.
EmptyChunk == 1
UndecodableChunk == 2

\* len(chunk), in bytes
chunk_bytes(chunk) == IF chunk = EmptyChunk THEN 0 ELSE ChunkSamples

\* len(decode_mulaw(chunk)): one sample per byte, and the empty array when
\* ulaw2lin raises (lines 32-34)
decode_mulaw_len(chunk) ==
    IF chunk = UndecodableChunk THEN 0 ELSE chunk_bytes(chunk)

\* calculate_volume_db(decode_mulaw(chunk)): -60 for an RMS of 0
calculate_volume_db(chunk) == IF decode_mulaw_len(chunk) = 0 THEN -60 ELSE chunk

\* calculate_rms_energy(decode_mulaw(chunk)) > 0.1, the peak threshold of
\* estimate_speaking_rate, for a chunk that decodes to samples: an RMS of
\* 0.1 is 20*log10(0.1) = -20 dB.
IsEnergyPeak(chunk) == decode_mulaw_len(chunk) > 0 /\ chunk > -20

RECURSIVE PeakCount(_)
PeakCount(audio_buffer) ==
    IF audio_buffer = <<>> THEN 0
    ELSE (IF IsEnergyPeak(Head(audio_buffer)) THEN 1 ELSE 0)
         + PeakCount(Tail(audio_buffer))

\* sum(len(chunk) for chunk in audio_buffer)
RECURSIVE TotalBytes(_)
TotalBytes(audio_buffer) ==
    IF audio_buffer = <<>> THEN 0
    ELSE chunk_bytes(Head(audio_buffer)) + TotalBytes(Tail(audio_buffer))

\* estimate_speaking_rate: (peak_count / 2) / (duration_seconds / 60),
\* clamped to [0, 300]; the quotient is rounded down to whole words.
estimate_speaking_rate(audio_buffer) ==
    IF audio_buffer = <<>> THEN 0
    ELSE LET total_samples == TotalBytes(audio_buffer)
         IN  IF total_samples = 0 THEN 0
             ELSE LET words_estimate ==
                          (PeakCount(audio_buffer) * 60 * audio_sample_rate)
                              \div (2 * total_samples)
                  IN  IF words_estimate > 300 THEN 300 ELSE words_estimate

\* extract_audio_features without the test for an empty array (lines 175-176)
extract_audio_features_empty_untested(audio_chunk, audio_buffer) ==
    [volume_db   |-> calculate_volume_db(audio_chunk),
     wpm         |-> IF audio_buffer # <<>>
                     THEN estimate_speaking_rate(Append(audio_buffer, audio_chunk))
                     ELSE 0,
     is_speaking |-> calculate_volume_db(audio_chunk) > -40]

\* extract_audio_features whose speaking flag is set above the silence
\* floor of -60 dB instead of above -40 dB (line 188)
extract_audio_features_speaking_above_floor(audio_chunk, audio_buffer) ==
    IF decode_mulaw_len(audio_chunk) = 0
    THEN [volume_db |-> -60, wpm |-> 0, is_speaking |-> FALSE]
    ELSE [volume_db   |-> calculate_volume_db(audio_chunk),
          wpm         |-> IF audio_buffer # <<>>
                          THEN estimate_speaking_rate(Append(audio_buffer, audio_chunk))
                          ELSE 0,
          is_speaking |-> calculate_volume_db(audio_chunk) > -60]

\* extract_audio_features(audio_chunk, audio_buffer)
extract_audio_features(audio_chunk, audio_buffer) ==
    IF decode_mulaw_len(audio_chunk) = 0
    THEN [volume_db |-> -60, wpm |-> 0, is_speaking |-> FALSE]
    ELSE [volume_db   |-> calculate_volume_db(audio_chunk),
          wpm         |-> IF audio_buffer # <<>>
                          THEN estimate_speaking_rate(Append(audio_buffer, audio_chunk))
                          ELSE 0,
          is_speaking |-> calculate_volume_db(audio_chunk) > -40]

\* --------------------------------------------------------- inbound audio
\* max_chunks of _process_audio_chunk
max_chunks == (sliding_window_seconds * 1000) \div audio_chunk_size_ms

\* append, then pop(0) when the buffer is longer than max_chunks
TrimBuffer(buffer) == IF Len(buffer) > max_chunks THEN Tail(buffer) ELSE buffer

MediaCall(stream_sid, track, payload) ==
    [NoCall EXCEPT !.op = "media", !.stream_sid = stream_sid,
                   !.track = track, !.payload = payload]

\* session_manager.get_session_by_stream_sid(stream_sid) finds the session
get_session_by_stream_sid(stream_sid) == stream_sid = session_stream_sid

\* The early returns of _process_audio_chunk without the is_active test
chunk_dropped_active_unchecked(stream_sid, payload) ==
    \/ payload = NoPayload
    \/ ~get_session_by_stream_sid(stream_sid)

\* The early returns of _process_audio_chunk: no payload, no session for the
\* stream, session not active
chunk_dropped(stream_sid, payload) ==
    \/ payload = NoPayload
    \/ ~get_session_by_stream_sid(stream_sid)
    \/ ~is_active

\* _process_audio_chunk where an agent chunk is appended to the customer
\* buffer as well
process_audio_chunk_outbound_counts_both(stream_sid, track, payload) ==
    /\ Len(agent_audio_buffer) + Len(customer_audio_buffer) < MaxChunkEvents
    /\ last' = MediaCall(stream_sid, track, payload)
    /\ UNCHANGED service_vars
    /\ UNCHANGED <<now, is_active, active_rules, last_suggestion_time,
                   last_suggestion_type>>
    /\ IF chunk_dropped(stream_sid, payload)
       THEN UNCHANGED <<agent_audio_buffer, customer_audio_buffer, metrics>>
       ELSE IF track = "inbound"
       THEN /\ UNCHANGED agent_audio_buffer
            /\ IF ~stream_handler_settings_bound
               THEN /\ customer_audio_buffer' =
                           Append(customer_audio_buffer, b64decode(payload))
                    /\ UNCHANGED metrics
               ELSE LET buffer == TrimBuffer(Append(customer_audio_buffer,
                                                        b64decode(payload)))
                    IN  /\ customer_audio_buffer' = buffer
                        /\ metrics' = [metrics EXCEPT
                               !.customer = extract_audio_features(b64decode(payload), buffer),
                               !.last_update_time = now]
       ELSE IF track = "outbound"
       THEN /\ customer_audio_buffer' =
                   Append(customer_audio_buffer, b64decode(payload))
            /\ IF ~stream_handler_settings_bound
               THEN /\ agent_audio_buffer' =
                           Append(agent_audio_buffer, b64decode(payload))
                    /\ UNCHANGED metrics
               ELSE LET buffer == TrimBuffer(Append(agent_audio_buffer,
                                                        b64decode(payload)))
                        agent == extract_audio_features(b64decode(payload), buffer)
                    IN  /\ agent_audio_buffer' = buffer
                        /\ metrics' = [metrics EXCEPT
                               !.agent = agent,
                               !.interruptions =
                                   IF agent.is_speaking /\ metrics.customer.is_speaking
                                   THEN @ + 1 ELSE @,
                               !.last_update_time = now]
       ELSE /\ UNCHANGED <<agent_audio_buffer, customer_audio_buffer>>
            /\ metrics' = [metrics EXCEPT !.last_update_time = now]

\* AudioStreamHandler._process_audio_chunk for one media event.  The whole
\* body runs inside try/except Exception: the NameError raised where
\* max_chunks is computed leaves only the append done.
process_audio_chunk(stream_sid, track, payload) ==
    /\ Len(agent_audio_buffer) + Len(customer_audio_buffer) < MaxChunkEvents
    /\ last' = MediaCall(stream_sid, track, payload)
    /\ UNCHANGED service_vars
    /\ UNCHANGED <<now, is_active, active_rules, last_suggestion_time,
                   last_suggestion_type>>
    /\ IF chunk_dropped(stream_sid, payload)
       THEN UNCHANGED <<agent_audio_buffer, customer_audio_buffer, metrics>>
       ELSE IF track = "inbound"
       THEN /\ UNCHANGED agent_audio_buffer
            /\ IF ~stream_handler_settings_bound
               THEN /\ customer_audio_buffer' =
                           Append(customer_audio_buffer, b64decode(payload))
                    /\ UNCHANGED metrics
               ELSE LET buffer == TrimBuffer(Append(customer_audio_buffer,
                                                        b64decode(payload)))
                    IN  /\ customer_audio_buffer' = buffer
                        /\ metrics' = [metrics EXCEPT
                               !.customer = extract_audio_features(b64decode(payload), buffer),
                               !.last_update_time = now]
       ELSE IF track = "outbound"
       THEN /\ UNCHANGED customer_audio_buffer
            /\ IF ~stream_handler_settings_bound
               THEN /\ agent_audio_buffer' =
                           Append(agent_audio_buffer, b64decode(payload))
                    /\ UNCHANGED metrics
               ELSE LET buffer == TrimBuffer(Append(agent_audio_buffer,
                                                        b64decode(payload)))
                        agent == extract_audio_features(b64decode(payload), buffer)
                    IN  /\ agent_audio_buffer' = buffer
                        /\ metrics' = [metrics EXCEPT
                               !.agent = agent,
                               !.interruptions =
                                   IF agent.is_speaking /\ metrics.customer.is_speaking
                                   THEN @ + 1 ELSE @,
                               !.last_update_time = now]
       ELSE /\ UNCHANGED <<agent_audio_buffer, customer_audio_buffer>>
            /\ metrics' = [metrics EXCEPT !.last_update_time = now]

\* AudioStreamHandler._handle_stream_stop: the session of the stream is ended.
handle_stream_stop ==
    /\ is_active
    /\ is_active' = FALSE
    /\ last' = [NoCall EXCEPT !.op = "stop"]
    /\ UNCHANGED service_vars
    /\ UNCHANGED <<now, agent_audio_buffer, customer_audio_buffer, metrics,
                   active_rules, last_suggestion_time, last_suggestion_type>>

\* ------------------------------------------------------------- throttler
\* SuggestionThrottler.rule_cooldowns; TEST_RULE has no entry.
rule_cooldowns ==
    [rule_name \in {"SPEAKING_TOO_FAST", "SPEAKING_TOO_LOUD", "SPEAKING_TOO_SOFT",
                    "INTERRUPTING_CUSTOMER", "TOO_MUCH_SILENCE"} |->
        CASE rule_name = "SPEAKING_TOO_FAST" -> 30
          [] rule_name = "SPEAKING_TOO_LOUD" -> 20
          [] rule_name = "SPEAKING_TOO_SOFT" -> 25
          [] rule_name = "INTERRUPTING_CUSTOMER" -> 15
          [] rule_name = "TOO_MUCH_SILENCE" -> 10]

\* rule_cooldowns.get(rule_name, 20)
cooldown_of(rule_name) ==
    IF rule_name \in DOMAIN rule_cooldowns THEN rule_cooldowns[rule_name] ELSE 20

\* The cooldown_seconds each rule of coaching/rules.py is constructed with
cooldown_seconds(rule_name) ==
    CASE rule_name = "SPEAKING_TOO_FAST" -> 30
      [] rule_name = "SPEAKING_TOO_LOUD" -> 20
      [] rule_name = "SPEAKING_TOO_SOFT" -> 25
      [] rule_name = "INTERRUPTING_CUSTOMER" -> 15
      [] rule_name = "TOO_MUCH_SILENCE" -> 10
      [] rule_name = "TEST_RULE" -> 60
      [] OTHER -> 20

\* can_trigger without the case of a rule that never fired
can_trigger_zero_unchecked(rule_name, last_trigger_time, current_time) ==
    current_time - last_trigger_time >= cooldown_of(rule_name)

\* can_trigger with the comparison off by one second
can_trigger_off_by_one(rule_name, last_trigger_time, current_time) ==
    IF last_trigger_time = 0 THEN TRUE
    ELSE current_time - last_trigger_time >= cooldown_of(rule_name) - 1

\* SuggestionThrottler.can_trigger
can_trigger(rule_name, last_trigger_time, current_time) ==
    IF last_trigger_time = 0 THEN TRUE
    ELSE current_time - last_trigger_time >= cooldown_of(rule_name)

\* get_cooldown_remaining without the max(0.0, ...)
get_cooldown_remaining_unclamped(rule_name, last_trigger_time, current_time) ==
    IF last_trigger_time = 0 THEN 0
    ELSE cooldown_of(rule_name) - (current_time - last_trigger_time)

\* SuggestionThrottler.get_cooldown_remaining
get_cooldown_remaining(rule_name, last_trigger_time, current_time) ==
    IF last_trigger_time = 0 THEN 0
    ELSE LET cooldown == cooldown_of(rule_name)
             time_since_last == current_time - last_trigger_time
         IN  IF cooldown - time_since_last > 0
             THEN cooldown - time_since_last
             ELSE 0

\* ----------------------------------------------------------------- rules
\* ALL_RULES with the silence rule listed first
ALL_RULES_silence_first ==
    <<"TOO_MUCH_SILENCE", "TEST_RULE", "SPEAKING_TOO_FAST", "SPEAKING_TOO_LOUD",
      "SPEAKING_TOO_SOFT", "INTERRUPTING_CUSTOMER">>

\* ALL_RULES, in evaluation order
ALL_RULES == <<"TEST_RULE", "SPEAKING_TOO_FAST", "SPEAKING_TOO_LOUD",
               "SPEAKING_TOO_SOFT", "INTERRUPTING_CUSTOMER", "TOO_MUCH_SILENCE">>

\* rule.evaluate where TestRule does not look the probe up in active_rules
rule_evaluate_probe_refires(rule_name, rules_fired, current_time) ==
    CASE rule_name = "TEST_RULE" ->
            current_time - created_at >= 3
      [] rule_name = "SPEAKING_TOO_FAST" ->
            /\ metrics.agent.is_speaking
            /\ metrics.agent.wpm > agent_wpm_threshold_fast
      [] rule_name = "SPEAKING_TOO_LOUD" ->
            /\ metrics.agent.is_speaking
            /\ metrics.agent.volume_db > agent_volume_threshold_loud
      [] rule_name = "SPEAKING_TOO_SOFT" ->
            /\ metrics.agent.is_speaking
            /\ metrics.agent.volume_db < agent_volume_threshold_soft
      [] rule_name = "INTERRUPTING_CUSTOMER" ->
            /\ metrics.agent.is_speaking
            /\ metrics.customer.is_speaking
      [] rule_name = "TOO_MUCH_SILENCE" ->
            /\ ~metrics.agent.is_speaking
            /\ ~metrics.customer.is_speaking
            /\ current_time - metrics.last_update_time > silence_threshold_seconds
      [] OTHER -> FALSE

\* rule.evaluate where TooMuchSilenceRule tests the customer's flag without
\* its negation
rule_evaluate_silence_flag(rule_name, rules_fired, current_time) ==
    CASE rule_name = "TEST_RULE" ->
            /\ current_time - created_at >= 3
            /\ "TEST_RULE" \notin DOMAIN rules_fired
      [] rule_name = "SPEAKING_TOO_FAST" ->
            /\ metrics.agent.is_speaking
            /\ metrics.agent.wpm > agent_wpm_threshold_fast
      [] rule_name = "SPEAKING_TOO_LOUD" ->
            /\ metrics.agent.is_speaking
            /\ metrics.agent.volume_db > agent_volume_threshold_loud
      [] rule_name = "SPEAKING_TOO_SOFT" ->
            /\ metrics.agent.is_speaking
            /\ metrics.agent.volume_db < agent_volume_threshold_soft
      [] rule_name = "INTERRUPTING_CUSTOMER" ->
            /\ metrics.agent.is_speaking
            /\ metrics.customer.is_speaking
      [] rule_name = "TOO_MUCH_SILENCE" ->
            /\ ~metrics.agent.is_speaking
            /\ metrics.customer.is_speaking
            /\ current_time - metrics.last_update_time > silence_threshold_seconds
      [] OTHER -> FALSE

\* rule.evaluate(session, current_time) of the rule named rule_name, on a
\* session whose cooldown map is rules_fired
rule_evaluate(rule_name, rules_fired, current_time) ==
    CASE rule_name = "TEST_RULE" ->
            /\ current_time - created_at >= 3
            /\ "TEST_RULE" \notin DOMAIN rules_fired
      [] rule_name = "SPEAKING_TOO_FAST" ->
            /\ metrics.agent.is_speaking
            /\ metrics.agent.wpm > agent_wpm_threshold_fast
      [] rule_name = "SPEAKING_TOO_LOUD" ->
            /\ metrics.agent.is_speaking
            /\ metrics.agent.volume_db > agent_volume_threshold_loud
      [] rule_name = "SPEAKING_TOO_SOFT" ->
            /\ metrics.agent.is_speaking
            /\ metrics.agent.volume_db < agent_volume_threshold_soft
      [] rule_name = "INTERRUPTING_CUSTOMER" ->
            /\ metrics.agent.is_speaking
            /\ metrics.customer.is_speaking
      [] rule_name = "TOO_MUCH_SILENCE" ->
            /\ ~metrics.agent.is_speaking
            /\ ~metrics.customer.is_speaking
            /\ current_time - metrics.last_update_time > silence_threshold_seconds
      [] OTHER -> FALSE

\* -------------------------------------------------------------- messages
\* SUGGESTION_MESSAGES without the entry of the excess-silence rule
SUGGESTION_MESSAGES_no_silence ==
    ("TEST_RULE" :>
        [message |-> "System is working! Coaching is active and monitoring your call.",
         severity |-> "low"]) @@
    ("SPEAKING_TOO_FAST" :>
        [message |-> "Slow down your pace slightly to sound more professional and clear.",
         severity |-> "medium"]) @@
    ("SPEAKING_TOO_LOUD" :>
        [message |-> "Lower your tone slightly to sound calmer and more approachable.",
         severity |-> "medium"]) @@
    ("SPEAKING_TOO_SOFT" :>
        [message |-> "Speak a bit louder to ensure the customer can hear you clearly.",
         severity |-> "low"]) @@
    ("INTERRUPTING_CUSTOMER" :>
        [message |-> "Let the customer finish speaking before responding.",
         severity |-> "high"])

\* SUGGESTION_MESSAGES, by rule type (the check mark that opens the message
\* of TEST_RULE is left out)
SUGGESTION_MESSAGES ==
    ("TEST_RULE" :>
        [message |-> "System is working! Coaching is active and monitoring your call.",
         severity |-> "low"]) @@
    ("SPEAKING_TOO_FAST" :>
        [message |-> "Slow down your pace slightly to sound more professional and clear.",
         severity |-> "medium"]) @@
    ("SPEAKING_TOO_LOUD" :>
        [message |-> "Lower your tone slightly to sound calmer and more approachable.",
         severity |-> "medium"]) @@
    ("SPEAKING_TOO_SOFT" :>
        [message |-> "Speak a bit louder to ensure the customer can hear you clearly.",
         severity |-> "low"]) @@
    ("INTERRUPTING_CUSTOMER" :>
        [message |-> "Let the customer finish speaking before responding.",
         severity |-> "high"]) @@
    ("TOO_MUCH_SILENCE" :>
        [message |-> "Acknowledge the customer or ask a follow-up question to keep the conversation flowing.",
         severity |-> "medium"])

\* The default of SUGGESTION_MESSAGES.get in get_suggestion_message
FallbackMessage ==
    [message |-> "Consider adjusting your communication style.", severity |-> "low"]

\* get_suggestion_message(rule_type)
get_suggestion_message(rule_type) ==
    IF rule_type \in DOMAIN SUGGESTION_MESSAGES
    THEN SUGGESTION_MESSAGES[rule_type]
    ELSE FallbackMessage

\* create_suggestion(rule_type, timestamp)
create_suggestion(rule_type, timestamp) ==
    LET message_data == get_suggestion_message(rule_type)
    IN  [type |-> rule_type,
         message |-> message_data.message,
         severity |-> message_data.severity,
         timestamp |-> timestamp]

\* ---------------------------------------------------------------- engine
\* session.active_rules.get(rule_name, 0.0)
active_rules_get(rules_fired, rule_name) ==
    IF rule_name \in DOMAIN rules_fired THEN rules_fired[rule_name] ELSE 0

\* The loop of evaluate_session without its return: every rule whose condition
\* holds and that can trigger is recorded.
RECURSIVE evaluate_every_rule(_, _, _, _, _, _)
evaluate_every_rule(i, rules_fired, current_time, raising, suggestions, trigger_time) ==
    IF i > Len(ALL_RULES)
    THEN [active_rules |-> rules_fired, suggestions |-> suggestions,
          last_trigger_time |-> trigger_time, raised |-> FALSE]
    ELSE LET rule_name == ALL_RULES[i]
             last_trigger_time == active_rules_get(rules_fired, rule_name)
         IN  IF /\ rule_name \notin raising
                /\ rule_evaluate(rule_name, rules_fired, current_time)
                /\ can_trigger(rule_name, last_trigger_time, current_time)
             THEN evaluate_every_rule(i + 1, (rule_name :> current_time) @@ rules_fired,
                                      current_time, raising,
                                      Append(suggestions, rule_name), last_trigger_time)
             ELSE evaluate_every_rule(i + 1, rules_fired, current_time, raising,
                                      suggestions, trigger_time)

evaluate_rules_no_return(i, rules_fired, current_time, raising) ==
    evaluate_every_rule(i, rules_fired, current_time, raising, <<>>, 0)

\* The loop of evaluate_session without its try/except: the exception of a
\* rule's predicate ends the call.
RECURSIVE evaluate_rules_no_catch(_, _, _, _)
evaluate_rules_no_catch(i, rules_fired, current_time, raising) ==
    IF i > Len(ALL_RULES)
    THEN [active_rules |-> rules_fired, suggestions |-> <<>>,
          last_trigger_time |-> 0, raised |-> FALSE]
    ELSE LET rule_name == ALL_RULES[i]
             last_trigger_time == active_rules_get(rules_fired, rule_name)
         IN  IF rule_name \in raising
             THEN [active_rules |-> rules_fired, suggestions |-> <<>>,
                   last_trigger_time |-> 0, raised |-> TRUE]
             ELSE IF /\ rule_evaluate(rule_name, rules_fired, current_time)
                     /\ can_trigger(rule_name, last_trigger_time, current_time)
             THEN [active_rules |-> (rule_name :> current_time) @@ rules_fired,
                   suggestions |-> <<rule_name>>,
                   last_trigger_time |-> last_trigger_time, raised |-> FALSE]
             ELSE evaluate_rules_no_catch(i + 1, rules_fired, current_time, raising)

\* The loop of evaluate_session ending the call at the first rule whose
\* condition holds while its cooldown runs, instead of going on.
RECURSIVE evaluate_rules_stops_in_cooldown(_, _, _, _)
evaluate_rules_stops_in_cooldown(i, rules_fired, current_time, raising) ==
    IF i > Len(ALL_RULES)
    THEN [active_rules |-> rules_fired, suggestions |-> <<>>,
          last_trigger_time |-> 0, raised |-> FALSE]
    ELSE LET rule_name == ALL_RULES[i]
             last_trigger_time == active_rules_get(rules_fired, rule_name)
         IN  IF rule_name \in raising
             THEN evaluate_rules_stops_in_cooldown(i + 1, rules_fired, current_time, raising)
             ELSE IF rule_evaluate(rule_name, rules_fired, current_time)
             THEN IF can_trigger(rule_name, last_trigger_time, current_time)
                  THEN [active_rules |-> (rule_name :> current_time) @@ rules_fired,
                        suggestions |-> <<rule_name>>,
                        last_trigger_time |-> last_trigger_time, raised |-> FALSE]
                  ELSE [active_rules |-> rules_fired, suggestions |-> <<>>,
                        last_trigger_time |-> 0, raised |-> FALSE]
             ELSE evaluate_rules_stops_in_cooldown(i + 1, rules_fired, current_time, raising)

\* The loop of evaluate_session where a firing makes the cooldown map anew,
\* with the entry of the fired rule only.
RECURSIVE evaluate_rules_forgets_others(_, _, _, _)
evaluate_rules_forgets_others(i, rules_fired, current_time, raising) ==
    IF i > Len(ALL_RULES)
    THEN [active_rules |-> rules_fired, suggestions |-> <<>>,
          last_trigger_time |-> 0, raised |-> FALSE]
    ELSE LET rule_name == ALL_RULES[i]
             last_trigger_time == active_rules_get(rules_fired, rule_name)
         IN  IF rule_name \in raising
             THEN evaluate_rules_forgets_others(i + 1, rules_fired, current_time, raising)
             ELSE IF /\ rule_evaluate(rule_name, rules_fired, current_time)
                     /\ can_trigger(rule_name, last_trigger_time, current_time)
             THEN [active_rules |-> (rule_name :> current_time),
                   suggestions |-> <<rule_name>>,
                   last_trigger_time |-> last_trigger_time, raised |-> FALSE]
             ELSE evaluate_rules_forgets_others(i + 1, rules_fired, current_time, raising)

\* The loop of evaluate_session without line 52: the rule fired gets no
\* cooldown entry.
RECURSIVE evaluate_rules_no_cooldown_entry(_, _, _, _)
evaluate_rules_no_cooldown_entry(i, rules_fired, current_time, raising) ==
    IF i > Len(ALL_RULES)
    THEN [active_rules |-> rules_fired, suggestions |-> <<>>,
          last_trigger_time |-> 0, raised |-> FALSE]
    ELSE LET rule_name == ALL_RULES[i]
             last_trigger_time == active_rules_get(rules_fired, rule_name)
         IN  IF rule_name \in raising
             THEN evaluate_rules_no_cooldown_entry(i + 1, rules_fired, current_time, raising)
             ELSE IF /\ rule_evaluate(rule_name, rules_fired, current_time)
                     /\ can_trigger(rule_name, last_trigger_time, current_time)
             THEN [active_rules |-> rules_fired,
                   suggestions |-> <<rule_name>>,
                   last_trigger_time |-> last_trigger_time, raised |-> FALSE]
             ELSE evaluate_rules_no_cooldown_entry(i + 1, rules_fired, current_time, raising)

\* The loop of evaluate_session from the rule at position i on: the first
\* rule whose condition holds and that can trigger is recorded and the call
\* returns; a rule whose predicate raises (rule_name in raising) is logged
\* and the loop continues with the next rule.  The result is the cooldown
\* map, the suggestions created, the last_trigger_time local of the firing,
\* and whether an exception left the call.
RECURSIVE evaluate_rules(_, _, _, _)
evaluate_rules(i, rules_fired, current_time, raising) ==
    IF i > Len(ALL_RULES)
    THEN [active_rules |-> rules_fired, suggestions |-> <<>>,
          last_trigger_time |-> 0, raised |-> FALSE]
    ELSE LET rule_name == ALL_RULES[i]
             last_trigger_time == active_rules_get(rules_fired, rule_name)
         IN  IF rule_name \in raising
             THEN evaluate_rules(i + 1, rules_fired, current_time, raising)
             ELSE IF /\ rule_evaluate(rule_name, rules_fired, current_time)
                     /\ can_trigger(rule_name, last_trigger_time, current_time)
             THEN [active_rules |-> (rule_name :> current_time) @@ rules_fired,
                   suggestions |-> <<rule_name>>,
                   last_trigger_time |-> last_trigger_time, raised |-> FALSE]
             ELSE evaluate_rules(i + 1, rules_fired, current_time, raising)

\* evaluate_session that stamps the metrics' last update time with a firing
evaluate_session_stamps_metrics(raising) ==
    /\ UNCHANGED <<now, is_active, agent_audio_buffer, customer_audio_buffer>>
    /\ UNCHANGED service_vars
    /\ IF ~is_active
       THEN /\ last' = [NoCall EXCEPT !.op = "evaluate"]
            /\ UNCHANGED <<metrics, active_rules, last_suggestion_time,
                           last_suggestion_type>>
       ELSE LET result == evaluate_rules(1, active_rules, now, raising)
            IN  /\ active_rules' = result.active_rules
                /\ last' = [NoCall EXCEPT !.op = "evaluate",
                                          !.suggestions = result.suggestions,
                                          !.created =
                                              [i \in DOMAIN result.suggestions |->
                                                  create_suggestion(result.suggestions[i], now)],
                                          !.last_trigger_time = result.last_trigger_time,
                                          !.raising = raising,
                                          !.raised = result.raised]
                /\ IF result.suggestions # <<>>
                   THEN /\ last_suggestion_time' = now
                        /\ last_suggestion_type' = result.suggestions[1]
                        /\ metrics' = [metrics EXCEPT !.last_update_time = now]
                   ELSE UNCHANGED <<metrics, last_suggestion_time, last_suggestion_type>>

\* CoachingEngine.evaluate_session(session) at current_time = now, with the
\* predicates of the rules in raising raising an exception
session_evaluated(raising) ==
    /\ UNCHANGED <<now, is_active, agent_audio_buffer, customer_audio_buffer, metrics>>
    /\ IF ~is_active
       THEN /\ last' = [NoCall EXCEPT !.op = "evaluate"]
            /\ UNCHANGED <<active_rules, last_suggestion_time, last_suggestion_type>>
       ELSE LET result == evaluate_rules(1, active_rules, now, raising)
            IN  /\ active_rules' = result.active_rules
                /\ last' = [NoCall EXCEPT !.op = "evaluate",
                                          !.suggestions = result.suggestions,
                                          !.created =
                                              [i \in DOMAIN result.suggestions |->
                                                  create_suggestion(result.suggestions[i], now)],
                                          !.last_trigger_time = result.last_trigger_time,
                                          !.raising = raising,
                                          !.raised = result.raised]
                /\ IF result.suggestions # <<>>
                   THEN /\ last_suggestion_time' = now
                        /\ last_suggestion_type' = result.suggestions[1]
                   ELSE UNCHANGED <<last_suggestion_time, last_suggestion_type>>

evaluate_session(raising) ==
    /\ session_evaluated(raising)
    /\ UNCHANGED service_vars

\* -------------------------------------------------------- specification
Next ==
    \/ AdvanceTime
    \/ \E stream_sid \in StreamSids, track \in Tracks, payload \in Payloads :
          process_audio_chunk(stream_sid, track, payload)
    \/ evaluate_session({})
    \/ handle_stream_stop

Spec == Init /\ [][Next]_vars

\* The throttler on its own: a rule id, listed or not, a last trigger time
\* and a current time that advances; a trigger sets the last trigger time.
ThrottlerRuleNames ==
    {"TEST_RULE", "SPEAKING_TOO_FAST", "SPEAKING_TOO_LOUD", "SPEAKING_TOO_SOFT",
     "INTERRUPTING_CUSTOMER", "TOO_MUCH_SILENCE", "UNLISTED_RULE"}

ThrottlerCall(rule_name, last_trigger_time, current_time) ==
    [rule_name |-> rule_name,
     last_trigger_time |-> last_trigger_time,
     current_time |-> current_time,
     can_trigger |-> can_trigger(rule_name, last_trigger_time, current_time),
     remaining |-> get_cooldown_remaining(rule_name, last_trigger_time, current_time)]

InitThrottler ==
    /\ InitSession
    /\ InitLoop
    /\ InitWebhooks
    /\ features = NoFeaturesCall
    /\ InitTasks
    /\ \E rule_name \in ThrottlerRuleNames, last_trigger_time \in 0..2, current_time \in 0..2 :
          throttle = ThrottlerCall(rule_name, last_trigger_time, current_time)

\* The same rule and last trigger time are checked one second later.
throttler_check_later ==
    /\ throttle.current_time < MaxThrottlerTime
    /\ throttle' = ThrottlerCall(throttle.rule_name, throttle.last_trigger_time,
                                 throttle.current_time + 1)
    /\ UNCHANGED <<now, session_vars, last, loop_vars, webhook_vars, features, task_vars>>

\* The rule triggers (engine.py line 54) and is checked again at once.
throttler_check_after_trigger ==
    /\ throttle.can_trigger
    /\ throttle.current_time > throttle.last_trigger_time
    /\ throttle' = ThrottlerCall(throttle.rule_name, throttle.current_time,
                                 throttle.current_time)
    /\ UNCHANGED <<now, session_vars, last, loop_vars, webhook_vars, features, task_vars>>

NextThrottler ==
    \/ throttler_check_later
    \/ throttler_check_after_trigger

SpecThrottler == InitThrottler /\ [][NextThrottler]_vars

\* ------------------------------------------------------- processing loop
\* What the processing loop leaves alone: the single session of the audio
\* path, the call records of the pure functions and the webhooks' sessions.
outside_loop_vars == <<session_vars, last, throttle, webhook_vars, features, task_vars>>

\* session_manager.get_active_sessions(): the active sessions, as they are
\* when the tick begins
get_active_sessions == SelectSeq(SessionOrder, LAMBDA session_id : sessions[session_id].is_active)

\* evaluate_session without the test of session.is_active
session_evaluation_active_unchecked(session, current_time) ==
    LET result == evaluate_rules(1, session.active_rules, current_time, {})
    IN  [session |->
            [session EXCEPT
                !.active_rules = result.active_rules,
                !.last_suggestion_time =
                    IF result.suggestions # <<>> THEN current_time ELSE @,
                !.last_suggestion_type =
                    IF result.suggestions # <<>> THEN result.suggestions[1] ELSE @],
         suggestions |-> result.suggestions]

\* coaching_engine.evaluate_session(session) on a session of the loop: the
\* session after the call and the suggestion returned
session_evaluation(session, current_time) ==
    IF ~session.is_active
    THEN [session |-> session, suggestions |-> <<>>]
    ELSE LET result == evaluate_rules(1, session.active_rules, current_time, {})
         IN  [session |->
                 [session EXCEPT
                     !.active_rules = result.active_rules,
                     !.last_suggestion_time =
                         IF result.suggestions # <<>> THEN current_time ELSE @,
                     !.last_suggestion_type =
                         IF result.suggestions # <<>> THEN result.suggestions[1] ELSE @],
              suggestions |-> result.suggestions]

\* The for loop of _evaluate_and_broadcast goes on to the next session, or
\* the tick ends and _run_loop sleeps.
next_session(session_id, outcome, rest) ==
    [loop EXCEPT !.pc = IF rest = <<>> THEN "sleep" ELSE "iterate",
                 !.current = "-",
                 !.remaining = rest,
                 !.outcome = (session_id :> outcome) @@ @]

\* An exception of one session's turn without the try/except inside the for
\* loop: it leaves _evaluate_and_broadcast and _run_loop sleeps.
after_session_error_uncaught(session_id, rest) ==
    [loop EXCEPT !.pc = "sleep",
                 !.current = "-",
                 !.remaining = rest,
                 !.outcome = (session_id :> "error") @@ @]

\* except Exception of _evaluate_and_broadcast (line 103): the error is
\* logged and the for loop goes on.
after_session_error(session_id, rest) == next_session(session_id, "error", rest)

\* _run_loop wakes up and _evaluate_and_broadcast enumerates the active
\* sessions (lines 61-64).
begin_tick ==
    /\ loop.pc = "sleep"
    /\ LET active_sessions == get_active_sessions
       IN  loop' = [IdleLoop EXCEPT
                       !.pc = IF active_sessions = <<>> THEN "sleep" ELSE "iterate",
                       !.active_sessions = active_sessions,
                       !.remaining = active_sessions]
    /\ UNCHANGED <<now, sessions, ui_connections, outside_loop_vars>>

\* One turn of the for loop with a cooldown map that is held once for all
\* sessions instead of by each session.
evaluate_next_shared_cooldowns(fails) ==
    /\ loop.pc = "iterate"
    /\ LET session_id == Head(loop.remaining)
           rest == Tail(loop.remaining)
           result == session_evaluation(sessions[session_id], now)
       IN  IF fails
           THEN /\ loop' = after_session_error(session_id, rest)
                /\ UNCHANGED sessions
           ELSE /\ sessions' =
                     [other \in SessionIds |->
                         IF other = session_id
                         THEN result.session
                         ELSE [sessions[other] EXCEPT
                                  !.active_rules = result.session.active_rules]]
                /\ loop' =
                     IF result.suggestions = <<>>
                     THEN next_session(session_id, "none", rest)
                     ELSE IF session_id \in ui_connections
                     THEN [loop EXCEPT !.pc = "send_json",
                                       !.current = session_id,
                                       !.remaining = rest,
                                       !.emitted = @ \cup {session_id}]
                     ELSE [next_session(session_id, "no_connection", rest)
                              EXCEPT !.emitted = @ \cup {session_id}]
    /\ UNCHANGED <<now, ui_connections, outside_loop_vars>>

\* One turn of the for loop in which a firing is written to the session only
\* when a UI connection is there to take the suggestion.
evaluate_next_commits_when_observed(fails) ==
    /\ loop.pc = "iterate"
    /\ LET session_id == Head(loop.remaining)
           rest == Tail(loop.remaining)
           result == session_evaluation(sessions[session_id], now)
       IN  IF fails
           THEN /\ loop' = after_session_error(session_id, rest)
                /\ UNCHANGED sessions
           ELSE /\ sessions' = IF session_id \in ui_connections
                               THEN [sessions EXCEPT ![session_id] = result.session]
                               ELSE sessions
                /\ loop' =
                     IF result.suggestions = <<>>
                     THEN next_session(session_id, "none", rest)
                     ELSE IF session_id \in ui_connections
                     THEN [loop EXCEPT !.pc = "send_json",
                                       !.current = session_id,
                                       !.remaining = rest,
                                       !.emitted = @ \cup {session_id}]
                     ELSE [next_session(session_id, "no_connection", rest)
                              EXCEPT !.emitted = @ \cup {session_id}]
    /\ UNCHANGED <<now, ui_connections, outside_loop_vars>>

\* One turn of the for loop up to its first await: evaluate_session and, for
\* a suggestion, send_to_ui up to websocket.send_json.  With fails the turn
\* raises before the session is touched.
evaluate_next(fails) ==
    /\ loop.pc = "iterate"
    /\ LET session_id == Head(loop.remaining)
           rest == Tail(loop.remaining)
           result == session_evaluation(sessions[session_id], now)
       IN  IF fails
           THEN /\ loop' = after_session_error(session_id, rest)
                /\ UNCHANGED sessions
           ELSE /\ sessions' = [sessions EXCEPT ![session_id] = result.session]
                /\ loop' =
                     IF result.suggestions = <<>>
                     THEN next_session(session_id, "none", rest)
                     ELSE IF session_id \in ui_connections
                     THEN [loop EXCEPT !.pc = "send_json",
                                       !.current = session_id,
                                       !.remaining = rest,
                                       !.emitted = @ \cup {session_id}]
                     ELSE [next_session(session_id, "no_connection", rest)
                              EXCEPT !.emitted = @ \cup {session_id}]
    /\ UNCHANGED <<now, ui_connections, outside_loop_vars>>

\* websocket.send_json returns: the UI has the suggestion.
send_json_returns ==
    /\ loop.pc = "send_json"
    /\ loop' = next_session(loop.current, "delivered", loop.remaining)
    /\ UNCHANGED <<now, sessions, ui_connections, outside_loop_vars>>

\* send_json raises and the firing is taken back: the rule's cooldown entry
\* is removed from the session.
send_json_raises_uncommits ==
    /\ loop.pc = "send_json"
    /\ loop' = IF loop.current \in ui_connections
               THEN [loop EXCEPT !.pc = "close"]
               ELSE next_session(loop.current, "send_failed", loop.remaining)
    /\ sessions' =
          [sessions EXCEPT ![loop.current].active_rules =
              [rule_name \in DOMAIN @ \ {sessions[loop.current].last_suggestion_type} |->
                  @[rule_name]]]
    /\ UNCHANGED <<now, ui_connections, outside_loop_vars>>

\* websocket.send_json raises: send_to_ui logs and calls disconnect_ui, which
\* awaits close() if the connection is still registered.
send_json_raises ==
    /\ loop.pc = "send_json"
    /\ loop' = IF loop.current \in ui_connections
               THEN [loop EXCEPT !.pc = "close"]
               ELSE next_session(loop.current, "send_failed", loop.remaining)
    /\ UNCHANGED <<now, sessions, ui_connections, outside_loop_vars>>

\* close() returns or raises (caught in disconnect_ui), then
\* del ui_connections[session_id]: a KeyError if the UI handler removed the
\* connection in the meantime, which the except of the for loop catches.
close_returns ==
    /\ loop.pc = "close"
    /\ IF loop.current \in ui_connections
       THEN /\ ui_connections' = ui_connections \ {loop.current}
            /\ loop' = next_session(loop.current, "send_failed", loop.remaining)
       ELSE /\ UNCHANGED ui_connections
            /\ loop' = after_session_error(loop.current, loop.remaining)
    /\ UNCHANGED <<now, sessions, outside_loop_vars>>

\* The loop is suspended in an await: other handlers run.
LoopSuspended == loop.pc \in {"sleep", "send_json", "close"}

\* session_manager.end_session for the session of a stopped stream
end_session(session_id) ==
    /\ LoopSuspended
    /\ sessions[session_id].is_active
    /\ sessions' = [sessions EXCEPT ![session_id].is_active = FALSE]
    /\ UNCHANGED <<now, ui_connections, loop, outside_loop_vars>>

\* websocket_ui: the UI client went away and disconnect_ui removed it.
ui_disconnected(session_id) ==
    /\ LoopSuspended
    /\ session_id \in ui_connections
    /\ ui_connections' = ui_connections \ {session_id}
    /\ UNCHANGED <<now, sessions, loop, outside_loop_vars>>

\* Time passes while the loop is suspended.
AdvanceTimeLoop ==
    /\ LoopSuspended
    /\ now < MaxLoopTime
    /\ now' = now + 1
    /\ UNCHANGED <<sessions, ui_connections, loop, outside_loop_vars>>

NextLoop ==
    \/ begin_tick
    \/ \E fails \in BOOLEAN : evaluate_next(fails)
    \/ send_json_returns
    \/ send_json_raises
    \/ close_returns
    \/ \E session_id \in SessionIds : end_session(session_id)
    \/ \E session_id \in SessionIds : ui_disconnected(session_id)
    \/ AdvanceTimeLoop

SpecLoop == Init /\ [][NextLoop]_vars

\* websocket_ui: a UI client connects for the session and connect_ui
\* registers its socket (websocket.py 24-29, 116).
ui_connected(session_id) ==
    /\ LoopSuspended
    /\ session_id \notin ui_connections
    /\ ui_connections' = ui_connections \cup {session_id}
    /\ UNCHANGED <<now, sessions, loop, outside_loop_vars>>

\* The loop over two sessions whose UI clients come and go.
NextObservers ==
    \/ begin_tick
    \/ \E fails \in BOOLEAN : evaluate_next(fails)
    \/ send_json_returns
    \/ send_json_raises
    \/ close_returns
    \/ \E session_id \in SessionIds : ui_disconnected(session_id)
    \/ \E session_id \in SessionIds : ui_connected(session_id)
    \/ AdvanceTimeLoop

SpecObservers == Init /\ [][NextObservers]_vars

\* The loop with the errors of a whole tick and with stop(), under the
\* scheduling of the event loop: a task that can run does run, a sleep ends,
\* a send or a close returns or raises.
\* An exception that leaves _evaluate_and_broadcast and is not caught in
\* _run_loop: the task ends.
tick_raises_uncaught ==
    /\ loop.pc = "sleep"
    /\ loop' = [IdleLoop EXCEPT !.pc = "failed"]
    /\ UNCHANGED <<now, sessions, ui_connections, outside_loop_vars>>

\* An exception leaves _evaluate_and_broadcast before the first turn;
\* _run_loop logs it, sleeps and goes round again (lines 55-57).
tick_raises ==
    /\ loop.pc = "sleep"
    /\ loop' = IdleLoop
    /\ UNCHANGED <<now, sessions, ui_connections, outside_loop_vars>>

\* ProcessingLoop.stop() up to its await: is_running = False and
\* loop_task.cancel(), called while the loop task is suspended.
stop ==
    /\ LoopSuspended
    /\ loop' = [loop EXCEPT !.pc = "cancelled"]
    /\ UNCHANGED <<now, sessions, ui_connections, outside_loop_vars>>

\* The CancelledError is caught on its way and the task goes on with its
\* for loop.
loop_task_goes_on ==
    /\ loop.pc = "cancelled"
    /\ loop' = [loop EXCEPT !.pc = IF loop.remaining = <<>> THEN "sleep" ELSE "iterate"]
    /\ UNCHANGED <<now, sessions, ui_connections, outside_loop_vars>>

\* The CancelledError is raised at the await the task is suspended in; no
\* except Exception on its way catches it, _run_loop breaks (lines 53-54),
\* the task is done and the await of stop() returns.
loop_task_ends ==
    /\ loop.pc = "cancelled"
    /\ loop' = [loop EXCEPT !.pc = "stopped"]
    /\ UNCHANGED <<now, sessions, ui_connections, outside_loop_vars>>

NextLoopLive ==
    \/ NextLoop
    \/ tick_raises
    \/ stop
    \/ loop_task_ends

SpecLoopLive ==
    /\ Init
    /\ [][NextLoopLive]_vars
    /\ WF_vars(begin_tick)
    /\ WF_vars(\E fails \in BOOLEAN : evaluate_next(fails))
    /\ WF_vars(send_json_returns \/ send_json_raises)
    /\ WF_vars(close_returns)
    /\ WF_vars(loop_task_ends)

\* ------------------------------------------- two sessions with audio
\* session_manager.get_session_by_stream_sid(stream_sid) over the sessions
\* of the loop
sessions_of_stream(stream_sid) ==
    {session_id \in SessionIds : sessions[session_id].stream_sid = stream_sid}

\* _process_audio_chunk after its early returns, on a session of the
\* manager: the session as the call leaves it.  As in process_audio_chunk,
\* the NameError raised where max_chunks is computed leaves only the append
\* done.
session_after_chunk(session, track, audio_chunk, current_time) ==
    IF track = "inbound"
    THEN IF ~stream_handler_settings_bound
         THEN [session EXCEPT !.customer_audio_buffer = Append(@, audio_chunk)]
         ELSE LET buffer == TrimBuffer(Append(session.customer_audio_buffer, audio_chunk))
              IN  [session EXCEPT
                      !.customer_audio_buffer = buffer,
                      !.metrics = [@ EXCEPT
                          !.customer = extract_audio_features(audio_chunk, buffer),
                          !.last_update_time = current_time]]
    ELSE IF track = "outbound"
    THEN IF ~stream_handler_settings_bound
         THEN [session EXCEPT !.agent_audio_buffer = Append(@, audio_chunk)]
         ELSE LET buffer == TrimBuffer(Append(session.agent_audio_buffer, audio_chunk))
                  agent == extract_audio_features(audio_chunk, buffer)
              IN  [session EXCEPT
                      !.agent_audio_buffer = buffer,
                      !.metrics = [@ EXCEPT
                          !.agent = agent,
                          !.interruptions =
                              IF agent.is_speaking /\ session.metrics.customer.is_speaking
                              THEN @ + 1 ELSE @,
                          !.last_update_time = current_time]]
    ELSE [session EXCEPT !.metrics = [@ EXCEPT !.last_update_time = current_time]]

BufferedChunks(session_id) ==
    Len(sessions[session_id].agent_audio_buffer)
        + Len(sessions[session_id].customer_audio_buffer)

\* A media event arrives on the stream of one of the sessions while the loop
\* is suspended: _process_audio_chunk with its early returns.
session_chunk(stream_sid, track, payload) ==
    /\ LoopSuspended
    /\ BufferedChunks("CA-a") + BufferedChunks("CA-b") < MaxSessionChunks
    /\ last' = MediaCall(stream_sid, track, payload)
    /\ sessions' =
          IF payload = NoPayload \/ sessions_of_stream(stream_sid) = {}
          THEN sessions
          ELSE LET session_id == CHOOSE session_id \in sessions_of_stream(stream_sid) : TRUE
               IN  IF ~sessions[session_id].is_active
                   THEN sessions
                   ELSE [sessions EXCEPT
                            ![session_id] = session_after_chunk(@, track,
                                                b64decode(payload), now)]
    /\ UNCHANGED <<now, ui_connections, loop, session_vars, throttle,
                   webhook_vars, features, task_vars>>

\* The streams media events arrive on: those of the two sessions and one no
\* session is bound to.
SessionStreamSids == {StreamOfCall[call_sid] : call_sid \in CallSids} \cup {"MZ-unknown"}

\* The loop over two sessions that receive audio between its steps.
NextSessions ==
    \/ begin_tick
    \/ evaluate_next(FALSE)
    \/ send_json_returns
    \/ \E stream_sid \in SessionStreamSids, track \in Tracks, payload \in Payloads :
          session_chunk(stream_sid, track, payload)
    \/ \E session_id \in SessionIds : end_session(session_id)
    \/ AdvanceTimeLoop

SpecSessions == Init /\ [][NextSessions]_vars

\* --------------------------------------- the engine on given metrics
\* evaluate_session as a function of the session it is handed.  The session
\* holds up to two chunks per channel and the metrics lines 112-120 and
\* 131-139 of _process_audio_chunk write for the latest chunk of each; its
\* cooldown map starts empty and fills with the engine's own firings.
Windows ==
    {<<>>} \cup {<<first>> : first \in ChunkLevels}
           \cup {<<first, second>> : first \in ChunkLevels, second \in ChunkLevels}

metrics_written(buffer) ==
    IF buffer = <<>> THEN DefaultAudioMetrics
    ELSE extract_audio_features(buffer[Len(buffer)], buffer)

InitRules ==
    /\ now = created_at
    /\ is_active = TRUE
    /\ \E agent_buffer \in Windows, customer_buffer \in Windows :
          /\ agent_audio_buffer = agent_buffer
          /\ customer_audio_buffer = customer_buffer
          /\ metrics = [agent |-> metrics_written(agent_buffer),
                        customer |-> metrics_written(customer_buffer),
                        interruptions |-> 0,
                        last_update_time |-> created_at]
    /\ active_rules = <<>>
    /\ last_suggestion_time = 0
    /\ last_suggestion_type = "None"
    /\ last = NoCall
    /\ throttle = NoThrottlerCall
    /\ InitLoop
    /\ InitWebhooks
    /\ features = NoFeaturesCall
    /\ InitTasks

AdvanceTimeRules ==
    /\ now < MaxRulesTime
    /\ now' = now + 1
    /\ last' = NoCall
    /\ UNCHANGED session_vars
    /\ UNCHANGED service_vars

NextRules ==
    \/ AdvanceTimeRules
    \/ evaluate_session({})

SpecRules == InitRules /\ [][NextRules]_vars

\* ------------------------------- the engine on chunks of every loudness
\* evaluate_session on sessions whose agent channel holds chunks on both
\* sides of the speaking level (-40 dB) and of the soft threshold (-50 dB),
\* with the metrics _process_audio_chunk writes for the latest of them.
LoudnessLevels == {-60, -55, -51, -50, -49, -45, -41, -40, -39, -10}

LoudnessWindows ==
    {<<>>} \cup {<<first>> : first \in LoudnessLevels}
           \cup {<<first, second>> : first \in LoudnessLevels,
                                     second \in LoudnessLevels}

InitLoudness ==
    /\ now = created_at
    /\ is_active = TRUE
    /\ \E agent_buffer \in LoudnessWindows, customer_buffer \in Windows :
          /\ agent_audio_buffer = agent_buffer
          /\ customer_audio_buffer = customer_buffer
          /\ metrics = [agent |-> metrics_written(agent_buffer),
                        customer |-> metrics_written(customer_buffer),
                        interruptions |-> 0,
                        last_update_time |-> created_at]
    /\ active_rules = <<>>
    /\ last_suggestion_time = 0
    /\ last_suggestion_type = "None"
    /\ last = NoCall
    /\ throttle = NoThrottlerCall
    /\ InitLoop
    /\ InitWebhooks
    /\ features = NoFeaturesCall
    /\ InitTasks

SpecLoudness == InitLoudness /\ [][NextRules]_vars

\* ------------------------------------------------- a steady media stream
\* The media websocket delivers the next chunk of the session's stream
\* `delay` seconds after the one before it (after the session's creation
\* for the first), never later than the silence threshold, and
\* _process_audio_chunk runs on it at that time.  Between two chunks the
\* loop evaluates the session any number of times.
StreamDelays == 0 .. silence_threshold_seconds

\* A track of a media event that is neither of the two channels: the event
\* carries no "track" key.
StreamTracks == Tracks \cup {"None"}

\* The chunk leaves the session as it is (the mutation of lines 153-155 left
\* out)
refresh_last_update_time_skipped(current_time) == metrics

\* session.metrics.last_update_time = time.time(), lines 153-155
refresh_last_update_time(current_time) ==
    [metrics EXCEPT !.last_update_time = current_time]

stream_chunk_arrives(track, payload, delay) ==
    /\ is_active
    /\ now + delay <= MaxStreamTime
    /\ Len(agent_audio_buffer) + Len(customer_audio_buffer) < MaxStreamChunks
    /\ now' = now + delay
    /\ last' = MediaCall(session_stream_sid, track, payload)
    /\ UNCHANGED service_vars
    /\ UNCHANGED <<is_active, active_rules, last_suggestion_time,
                   last_suggestion_type>>
    /\ IF track = "inbound"
       THEN /\ UNCHANGED agent_audio_buffer
            /\ IF ~stream_handler_settings_bound
               THEN /\ customer_audio_buffer' =
                           Append(customer_audio_buffer, b64decode(payload))
                    /\ UNCHANGED metrics
               ELSE LET buffer == TrimBuffer(Append(customer_audio_buffer,
                                                        b64decode(payload)))
                    IN  /\ customer_audio_buffer' = buffer
                        /\ metrics' = [metrics EXCEPT
                               !.customer = extract_audio_features(b64decode(payload), buffer),
                               !.last_update_time = now']
       ELSE IF track = "outbound"
       THEN /\ UNCHANGED customer_audio_buffer
            /\ IF ~stream_handler_settings_bound
               THEN /\ agent_audio_buffer' =
                           Append(agent_audio_buffer, b64decode(payload))
                    /\ UNCHANGED metrics
               ELSE LET buffer == TrimBuffer(Append(agent_audio_buffer,
                                                        b64decode(payload)))
                        agent == extract_audio_features(b64decode(payload), buffer)
                    IN  /\ agent_audio_buffer' = buffer
                        /\ metrics' = [metrics EXCEPT
                               !.agent = agent,
                               !.interruptions =
                                   IF agent.is_speaking /\ metrics.customer.is_speaking
                                   THEN @ + 1 ELSE @,
                               !.last_update_time = now']
       ELSE /\ UNCHANGED <<agent_audio_buffer, customer_audio_buffer>>
            /\ metrics' = refresh_last_update_time(now')

NextStream ==
    \/ \E track \in StreamTracks, level \in ChunkLevels, delay \in StreamDelays :
          stream_chunk_arrives(track, <<level>>, delay)
    \/ evaluate_session({})

SpecStream == Init /\ [][NextStream]_vars

\* ------------------------------------------------ a rule waiting its turn
\* The loop's ticks on the session while its stream delivers chunks: each
\* tick calls evaluate_session once (processing_loop.py 86), which fires at
\* most one rule.  For every rule the ticks in a row are counted that found
\* its condition holding and its cooldown elapsed and fired another rule.
tick_evaluates ==
    /\ is_active
    /\ \A rule_name \in RuleNames : passed_over[rule_name] < MaxPassedOver
    /\ session_evaluated({})
    /\ passed_over' =
          [rule_name \in RuleNames |->
              IF /\ rule_evaluate(rule_name, active_rules, now)
                 /\ can_trigger(rule_name, active_rules_get(active_rules, rule_name), now)
                 /\ last'.suggestions # <<rule_name>>
              THEN passed_over[rule_name] + 1
              ELSE 0]
    /\ UNCHANGED <<throttle, loop_vars, webhook_vars, features, chunk_task,
                   socket_vars, runner_vars>>

NextTicks ==
    \/ AdvanceTime
    \/ \E track \in Tracks, level \in ChunkLevels :
          process_audio_chunk(session_stream_sid, track, <<level>>)
    \/ tick_evaluates

SpecTicks == Init /\ [][NextTicks]_vars

\* ------------------------------------------- the connection manager
\* connect_ui, disconnect_ui and send_to_ui of ConnectionManager for one
\* session id, called by coroutines of one event loop: a call runs from one
\* await to the next without any other coroutine running in between.
outside_socket_vars == <<now, session_vars, last, throttle, loop_vars, webhook_vars,
                         features, chunk_task, tick_vars, runner_vars>>

ui_call_becomes(coroutine, op, pc, websocket) ==
    ui_calls' = [ui_calls EXCEPT ![coroutine] =
                    [op |-> op, pc |-> pc, websocket |-> websocket]]

\* The coroutine is done with the call it returned from or that raised.
ui_call_forgotten(coroutine) ==
    /\ ui_calls[coroutine].pc \in {"returned", "raised"}
    /\ ui_calls' = [ui_calls EXCEPT ![coroutine] = NoUiCall]
    /\ UNCHANGED <<manager, websockets>>
    /\ UNCHANGED outside_socket_vars

\* connect_ui(session_id, websocket) up to await websocket.accept(), line 26
connect_ui_begins(coroutine) ==
    /\ ui_calls[coroutine].pc = "idle"
    /\ websockets < MaxWebsockets
    /\ websockets' = websockets + 1
    /\ ui_call_becomes(coroutine, "connect_ui", "accept", websockets + 1)
    /\ UNCHANGED manager
    /\ UNCHANGED outside_socket_vars

\* accept() returns: lines 27-28 register the socket
connect_ui_registers(coroutine) ==
    /\ ui_calls[coroutine].pc = "accept"
    /\ manager' = [ui_connection |-> ui_calls[coroutine].websocket,
                   in_active_sessions |-> TRUE]
    /\ ui_call_becomes(coroutine, "connect_ui", "returned", ui_calls[coroutine].websocket)
    /\ UNCHANGED websockets
    /\ UNCHANGED outside_socket_vars

\* disconnect_ui(session_id) up to await ...close(), lines 33-35: with no
\* socket registered the call returns at once.
disconnect_ui_begins(coroutine) ==
    /\ ui_calls[coroutine].pc = "idle"
    /\ IF manager.ui_connection = NoSocket
       THEN ui_call_becomes(coroutine, "disconnect_ui", "returned", NoSocket)
       ELSE ui_call_becomes(coroutine, "disconnect_ui", "close", manager.ui_connection)
    /\ UNCHANGED <<manager, websockets>>
    /\ UNCHANGED outside_socket_vars

\* close() has returned or raised (lines 35-37); line 38 deletes the entry
\* of the session id, whatever socket it holds by now, and raises KeyError
\* when there is none; line 39 follows a successful del.
del_ui_connection(coroutine) ==
    IF manager.ui_connection = NoSocket
    THEN /\ ui_call_becomes(coroutine, ui_calls[coroutine].op, "raised",
                            ui_calls[coroutine].websocket)
         /\ UNCHANGED manager
    ELSE /\ manager' = [ui_connection |-> NoSocket, in_active_sessions |-> FALSE]
         /\ ui_call_becomes(coroutine, ui_calls[coroutine].op, "returned",
                            ui_calls[coroutine].websocket)

disconnect_ui_deletes(coroutine) ==
    /\ ui_calls[coroutine].pc = "close"
    /\ del_ui_connection(coroutine)
    /\ UNCHANGED websockets
    /\ UNCHANGED outside_socket_vars

\* send_to_ui(session_id, message) up to await ...send_json(message), lines
\* 60-62: with no socket registered the call returns at once.
send_to_ui_begins(coroutine) ==
    /\ ui_calls[coroutine].pc = "idle"
    /\ IF manager.ui_connection = NoSocket
       THEN ui_call_becomes(coroutine, "send_to_ui", "returned", NoSocket)
       ELSE ui_call_becomes(coroutine, "send_to_ui", "send_json", manager.ui_connection)
    /\ UNCHANGED <<manager, websockets>>
    /\ UNCHANGED outside_socket_vars

\* send_json returns, or raises and line 65 calls disconnect_ui, which runs
\* up to its close() or returns at once.
send_json_ends(coroutine, raises) ==
    /\ ui_calls[coroutine].pc = "send_json"
    /\ IF ~raises
       THEN ui_call_becomes(coroutine, "send_to_ui", "returned", ui_calls[coroutine].websocket)
       ELSE IF manager.ui_connection = NoSocket
       THEN ui_call_becomes(coroutine, "send_to_ui", "returned", NoSocket)
       ELSE ui_call_becomes(coroutine, "send_to_ui", "close", manager.ui_connection)
    /\ UNCHANGED <<manager, websockets>>
    /\ UNCHANGED outside_socket_vars

NextSockets ==
    \/ \E coroutine \in UiCoroutines :
          \/ connect_ui_begins(coroutine)
          \/ connect_ui_registers(coroutine)
          \/ disconnect_ui_begins(coroutine)
          \/ disconnect_ui_deletes(coroutine)
          \/ send_to_ui_begins(coroutine)
          \/ ui_call_forgotten(coroutine)
    \/ \E coroutine \in UiCoroutines, raises \in BOOLEAN :
          send_json_ends(coroutine, raises)

SpecSockets == Init /\ [][NextSockets]_vars

\* ------------------------------------------- start() and stop()
\* ProcessingLoop.start and ProcessingLoop.stop, called one after the other
\* as main.py does at startup and shutdown, and the tasks made of _run_loop.
\* A task is where it last awaited: not yet run ("created"), inside
\* _evaluate_and_broadcast ("evaluate"), in the sleep of line 52 ("sleep") or
\* of line 57 ("sleep_after_error"), or it has ended: _run_loop returned
\* ("finished") or CancelledError left it ("cancelled").
outside_runner_vars == <<now, session_vars, last, throttle, loop_vars, webhook_vars,
                         features, chunk_task, tick_vars, socket_vars>>

NewTask == [at |-> "created", cancelled |-> FALSE]

\* start() without the test of is_running (lines 28-30)
start_called_unguarded ==
    /\ lifecycle.pc = "returned"
    /\ Len(loop_tasks) < MaxLoopTasks
    /\ processing_loop' = [is_running |-> TRUE, loop_task |-> Len(loop_tasks) + 1]
    /\ loop_tasks' = Append(loop_tasks, NewTask)
    /\ lifecycle' = [op |-> "start", pc |-> "returned",
                     created |-> Len(loop_tasks) + 1]
    /\ UNCHANGED outside_runner_vars

\* start(), lines 26-34: it has no await and so runs as one step.
start_called ==
    /\ lifecycle.pc = "returned"
    /\ IF processing_loop.is_running
       THEN /\ lifecycle' = [op |-> "start", pc |-> "returned", created |-> NoTask]
            /\ UNCHANGED <<processing_loop, loop_tasks>>
       ELSE /\ Len(loop_tasks) < MaxLoopTasks
            /\ processing_loop' = [is_running |-> TRUE,
                                   loop_task |-> Len(loop_tasks) + 1]
            /\ loop_tasks' = Append(loop_tasks, NewTask)
            /\ lifecycle' = [op |-> "start", pc |-> "returned",
                             created |-> Len(loop_tasks) + 1]
    /\ UNCHANGED outside_runner_vars

\* stop() up to await self.loop_task, lines 38-42: cancel() asks a task
\* that has not ended to end.
stop_begins ==
    /\ lifecycle.pc = "returned"
    /\ processing_loop' = [processing_loop EXCEPT !.is_running = FALSE]
    /\ IF processing_loop.loop_task = NoTask
       THEN /\ lifecycle' = [op |-> "stop", pc |-> "returned", created |-> NoTask]
            /\ UNCHANGED loop_tasks
       ELSE /\ lifecycle' = [op |-> "stop", pc |-> "await_loop_task",
                             created |-> NoTask]
            /\ loop_tasks' =
                  [loop_tasks EXCEPT ![processing_loop.loop_task].cancelled =
                      (loop_tasks[processing_loop.loop_task].at \notin TaskEnded) \/ @]
    /\ UNCHANGED outside_runner_vars

\* The awaited task has ended: the await returns, or raises CancelledError
\* for a cancelled task, which is caught (lines 42-45).
stop_returns ==
    /\ lifecycle.pc = "await_loop_task"
    /\ loop_tasks[processing_loop.loop_task].at \in TaskEnded
    /\ lifecycle' = [lifecycle EXCEPT !.pc = "returned"]
    /\ UNCHANGED <<processing_loop, loop_tasks>>
    /\ UNCHANGED outside_runner_vars

task_goes_to(task, at) ==
    /\ loop_tasks' = [loop_tasks EXCEPT ![task].at = at]
    /\ UNCHANGED <<processing_loop, lifecycle>>
    /\ UNCHANGED outside_runner_vars

\* The task runs for the first time or its sleep ends: the while of line 49
\* tests is_running and the task enters _evaluate_and_broadcast or ends.
task_wakes(task) ==
    /\ loop_tasks[task].at \in {"created", "sleep", "sleep_after_error"}
    /\ ~loop_tasks[task].cancelled
    /\ task_goes_to(task, IF processing_loop.is_running THEN "evaluate" ELSE "finished")

\* _evaluate_and_broadcast returns or raises (lines 51-57).
evaluate_and_broadcast_ends(task, raises) ==
    /\ loop_tasks[task].at = "evaluate"
    /\ ~loop_tasks[task].cancelled
    /\ task_goes_to(task, IF raises THEN "sleep_after_error" ELSE "sleep")

\* The task asked to end is resumed with CancelledError where it awaits, or
\* is never run: inside the try, line 53 catches it and breaks; a task not
\* yet run, or in the sleep of line 57, ends cancelled.
task_cancelled(task) ==
    /\ loop_tasks[task].at \notin TaskEnded
    /\ loop_tasks[task].cancelled
    /\ task_goes_to(task, IF loop_tasks[task].at \in {"evaluate", "sleep"}
                          THEN "finished" ELSE "cancelled")

NextRunner ==
    \/ start_called
    \/ stop_begins
    \/ stop_returns
    \/ \E task \in DOMAIN loop_tasks :
          \/ task_wakes(task)
          \/ task_cancelled(task)
    \/ \E task \in DOMAIN loop_tasks, raises \in BOOLEAN :
          evaluate_and_broadcast_ends(task, raises)

SpecRunner == Init /\ [][NextRunner]_vars

\* ------------------------------------- the chunk handler step by step
\* _process_audio_chunk from its entry to the end of the append (lines
\* 78-105 and 124), or to one of its early returns.
chunk_begins(stream_sid, track, payload) ==
    /\ chunk_task.pc = "idle"
    /\ Len(agent_audio_buffer) + Len(customer_audio_buffer) < MaxChunkEvents
    /\ last' = MediaCall(stream_sid, track, payload)
    /\ IF chunk_dropped(stream_sid, payload)
       THEN UNCHANGED <<agent_audio_buffer, customer_audio_buffer, chunk_task>>
       ELSE /\ chunk_task' = [pc |-> "max_chunks", track |-> track,
                              audio_chunk |-> b64decode(payload)]
            /\ IF track = "inbound"
               THEN /\ customer_audio_buffer' =
                           Append(customer_audio_buffer, b64decode(payload))
                    /\ UNCHANGED agent_audio_buffer
               ELSE /\ agent_audio_buffer' =
                           Append(agent_audio_buffer, b64decode(payload))
                    /\ UNCHANGED customer_audio_buffer
    /\ UNCHANGED <<now, is_active, metrics, active_rules, last_suggestion_time,
                   last_suggestion_type>>
    /\ UNCHANGED <<throttle, loop_vars, webhook_vars, features, tick_vars,
                   socket_vars, runner_vars>>

\* The next statement of the call under way.  At max_chunks the name
\* `settings` is evaluated: unbound, it raises NameError and the except of
\* line 157 ends the call; bound, the buffer is trimmed and the metrics are
\* written one field after the other (lines 107-155).
chunk_continues ==
    /\ chunk_task.pc # "idle"
    /\ LET inbound == chunk_task.track = "inbound"
           buffer == IF inbound THEN customer_audio_buffer ELSE agent_audio_buffer
           extracted == extract_audio_features(chunk_task.audio_chunk, buffer)
           goes_to(pc) == chunk_task' = [chunk_task EXCEPT !.pc = pc]
       IN  CASE chunk_task.pc = "max_chunks" /\ ~stream_handler_settings_bound ->
                   /\ chunk_task' = NoChunkTask
                   /\ UNCHANGED <<agent_audio_buffer, customer_audio_buffer, metrics>>
             [] chunk_task.pc = "max_chunks" /\ stream_handler_settings_bound ->
                   /\ goes_to("volume_db")
                   /\ IF inbound
                      THEN /\ customer_audio_buffer' = TrimBuffer(customer_audio_buffer)
                           /\ UNCHANGED agent_audio_buffer
                      ELSE /\ agent_audio_buffer' = TrimBuffer(agent_audio_buffer)
                           /\ UNCHANGED customer_audio_buffer
                   /\ UNCHANGED metrics
             [] chunk_task.pc = "volume_db" ->
                   /\ goes_to("wpm")
                   /\ metrics' = IF inbound
                                 THEN [metrics EXCEPT !.customer.volume_db = extracted.volume_db]
                                 ELSE [metrics EXCEPT !.agent.volume_db = extracted.volume_db]
                   /\ UNCHANGED <<agent_audio_buffer, customer_audio_buffer>>
             [] chunk_task.pc = "wpm" ->
                   /\ goes_to("is_speaking")
                   /\ metrics' = IF inbound
                                 THEN [metrics EXCEPT !.customer.wpm = extracted.wpm]
                                 ELSE [metrics EXCEPT !.agent.wpm = extracted.wpm]
                   /\ UNCHANGED <<agent_audio_buffer, customer_audio_buffer>>
             [] chunk_task.pc = "is_speaking" ->
                   /\ goes_to(IF inbound THEN "last_update_time" ELSE "interruptions")
                   /\ metrics' = IF inbound
                                 THEN [metrics EXCEPT !.customer.is_speaking = extracted.is_speaking]
                                 ELSE [metrics EXCEPT !.agent.is_speaking = extracted.is_speaking]
                   /\ UNCHANGED <<agent_audio_buffer, customer_audio_buffer>>
             [] chunk_task.pc = "interruptions" ->
                   /\ goes_to("last_update_time")
                   /\ metrics' = IF metrics.agent.is_speaking /\ metrics.customer.is_speaking
                                 THEN [metrics EXCEPT !.interruptions = @ + 1]
                                 ELSE metrics
                   /\ UNCHANGED <<agent_audio_buffer, customer_audio_buffer>>
             [] chunk_task.pc = "last_update_time" ->
                   /\ chunk_task' = NoChunkTask
                   /\ metrics' = [metrics EXCEPT !.last_update_time = now]
                   /\ UNCHANGED <<agent_audio_buffer, customer_audio_buffer>>
    /\ UNCHANGED <<now, is_active, active_rules, last_suggestion_time,
                   last_suggestion_type, last>>
    /\ UNCHANGED <<throttle, loop_vars, webhook_vars, features, tick_vars,
                   socket_vars, runner_vars>>

\* A tick of the processing loop evaluates the session whenever the event
\* loop would let it run, a call of _process_audio_chunk under way or not.
evaluation_runs_mid_chunk == evaluate_session({})

\* A tick of the processing loop evaluates the session.  The loop's task
\* and the media handler run on one event loop, and _process_audio_chunk
\* has no await between its entry and its return: the tick runs when no
\* call of it is under way.
evaluation_runs ==
    /\ chunk_task.pc = "idle"
    /\ evaluate_session({})

NextHandler ==
    \/ \E stream_sid \in StreamSids, track \in Tracks, payload \in Payloads :
          chunk_begins(stream_sid, track, payload)
    \/ chunk_continues
    \/ evaluation_runs
    \/ AdvanceTimeRules

SpecHandler == Init /\ [][NextHandler]_vars

\* ---------------------------------------- chunks that carry no samples
\* The chunks handed to extract_audio_features: silence, loud speech, a
\* chunk of no bytes and one that does not decode.
FeatureChunks == ChunkLevels \cup {EmptyChunk, UndecodableChunk}

FeaturesCall(audio_chunk, audio_buffer) ==
    [called |-> TRUE, audio_chunk |-> audio_chunk, audio_buffer |-> audio_buffer,
     result |-> extract_audio_features(audio_chunk, audio_buffer)]

InitFeatures ==
    /\ InitSession
    /\ throttle = NoThrottlerCall
    /\ InitLoop
    /\ InitWebhooks
    /\ \E audio_chunk \in FeatureChunks : features = FeaturesCall(audio_chunk, <<>>)
    /\ InitTasks

\* extract_audio_features is called for the next chunk, with the chunks
\* before it as the window.
extract_next(audio_chunk) ==
    /\ Len(features.audio_buffer) < MaxFeatureBuffer
    /\ features' = FeaturesCall(audio_chunk,
                                Append(features.audio_buffer, features.audio_chunk))
    /\ UNCHANGED <<now, session_vars, last, throttle, loop_vars, webhook_vars,
                   task_vars>>

\* A media event of the session's stream whose payload decodes to a chunk
\* that carries no samples.
process_chunk_without_samples(track, audio_chunk) ==
    process_audio_chunk(session_stream_sid, track, <<audio_chunk>>)

NextFeatures ==
    \/ \E audio_chunk \in FeatureChunks : extract_next(audio_chunk)
    \/ \E track \in Tracks, audio_chunk \in {EmptyChunk, UndecodableChunk} :
          process_chunk_without_samples(track, audio_chunk)

SpecFeatures == InitFeatures /\ [][NextFeatures]_vars

\* ------------------------------------------------------ Twilio webhooks
\* What the webhook handlers leave alone.
outside_webhook_vars == <<now, session_vars, last, throttle, loop_vars, features,
                          task_vars>>

\* The sessions the manager holds for a call, ended ones included
\* (stream_handler.py line 93 tests is_active on a session it looked up).
sessions_of_call(call_sid) == {session \in session_store : session.call_sid = call_sid}

\* session_manager.get_session_by_call_sid(call_sid) finds a session
has_session(call_sid) == sessions_of_call(call_sid) # {}

\* session_manager.create_session(call_sid, stream_sid): the manager is keyed
\* by call identifier, so the new active session takes the place of the one
\* the call had.
create_session(call_sid, stream_sid) ==
    (session_store \ sessions_of_call(call_sid))
        \cup {[call_sid |-> call_sid,
               call_session_id |-> <<call_sid, call_state[call_sid].created + 1>>,
               stream_sid |-> stream_sid,
               is_active |-> TRUE]}

\* session_manager.update_session_stream(call_sid, stream_sid)
update_session_stream(call_sid, stream_sid) ==
    {IF session.call_sid = call_sid
     THEN [session EXCEPT !.stream_sid = stream_sid]
     ELSE session : session \in session_store}

\* session_manager.end_session(call_sid)
end_session_of_call(call_sid) ==
    {IF session.call_sid = call_sid
     THEN [session EXCEPT !.is_active = FALSE]
     ELSE session : session \in session_store}

\* What Twilio has reported of the call once the event is handled: the call
\* has begun with its first event that is not an end, and has ended for good
\* with its first end.
call_event(call_sid, creates, begins, ends) ==
    call_state' = [call_state EXCEPT
                      ![call_sid] = [begun   |-> @.begun \/ begins,
                                     ended   |-> @.ended \/ ends,
                                     created |-> @.created + (IF creates THEN 1 ELSE 0)]]

\* POST /webhooks/voice with a CallSid
handle_incoming_call(call_sid) ==
    /\ call_state[call_sid].created < MaxSessionsCreated
    /\ session_store' = create_session(call_sid, NoStream)
    /\ call_event(call_sid, TRUE, TRUE, FALSE)
    /\ UNCHANGED outside_webhook_vars

\* POST /webhooks/voice/status where "in-progress" creates no session
handle_voice_status_no_create(call_sid, call_status) ==
    /\ IF call_status \in {"completed", "failed", "busy", "no-answer", "canceled"}
       THEN /\ session_store' = end_session_of_call(call_sid)
            /\ call_event(call_sid, FALSE, FALSE, TRUE)
       ELSE /\ UNCHANGED session_store
            /\ call_event(call_sid, FALSE, call_status = "in-progress", FALSE)
    /\ UNCHANGED outside_webhook_vars

\* POST /webhooks/voice/status
handle_voice_status(call_sid, call_status) ==
    /\ IF call_status = "in-progress"
       THEN IF ~has_session(call_sid)
            THEN /\ call_state[call_sid].created < MaxSessionsCreated
                 /\ session_store' = create_session(call_sid, NoStream)
                 /\ call_event(call_sid, TRUE, TRUE, FALSE)
            ELSE /\ UNCHANGED session_store
                 /\ call_event(call_sid, FALSE, TRUE, FALSE)
       ELSE IF call_status \in {"completed", "failed", "busy", "no-answer", "canceled"}
            THEN /\ session_store' = end_session_of_call(call_sid)
                 /\ call_event(call_sid, FALSE, FALSE, TRUE)
            ELSE UNCHANGED webhook_vars
    /\ UNCHANGED outside_webhook_vars

\* POST /webhooks/media/start
handle_media_start(call_sid, stream_sid) ==
    /\ IF has_session(call_sid)
       THEN /\ session_store' = update_session_stream(call_sid, stream_sid)
            /\ call_event(call_sid, FALSE, TRUE, FALSE)
       ELSE /\ call_state[call_sid].created < MaxSessionsCreated
            /\ session_store' = create_session(call_sid, stream_sid)
            /\ call_event(call_sid, TRUE, TRUE, FALSE)
    /\ UNCHANGED outside_webhook_vars

\* POST /webhooks/media/stop
handle_media_stop(call_sid) ==
    /\ session_store' = end_session_of_call(call_sid)
    /\ call_event(call_sid, FALSE, FALSE, TRUE)
    /\ UNCHANGED outside_webhook_vars

\* CallStatus values Twilio posts: one the handler ignores, the one that
\* starts the call and one of the final ones.
CallStatuses == {"ringing", "in-progress", "completed"}

NextWebhooks ==
    \/ \E call_sid \in CallSids : handle_incoming_call(call_sid)
    \/ \E call_sid \in CallSids, call_status \in CallStatuses :
          handle_voice_status(call_sid, call_status)
    \/ \E call_sid \in CallSids : handle_media_start(call_sid, StreamOfCall[call_sid])
    \/ \E call_sid \in CallSids : handle_media_stop(call_sid)

SpecWebhooks == Init /\ [][NextWebhooks]_vars

\* The engine alone on a session that receives no audio, over a longer time
\* and with rule predicates that may raise.
AdvanceTimeEngine ==
    /\ now < MaxEngineTime
    /\ now' = now + 1
    /\ last' = NoCall
    /\ UNCHANGED session_vars
    /\ UNCHANGED service_vars

NextEngine ==
    \/ AdvanceTimeEngine
    \/ \E raising \in RaisingSets : evaluate_session(raising)
    \/ handle_stream_stop

SpecEngine == Init /\ [][NextEngine]_vars

\* ================================================================ claims
\* The fixed order and the cooldowns the rule table states.
ClaimedOrder == <<"TEST_RULE", "SPEAKING_TOO_FAST", "SPEAKING_TOO_LOUD",
                  "SPEAKING_TOO_SOFT", "INTERRUPTING_CUSTOMER", "TOO_MUCH_SILENCE">>

ClaimedCooldown(rule_name) ==
    CASE rule_name = "SPEAKING_TOO_FAST" -> 30
      [] rule_name = "SPEAKING_TOO_LOUD" -> 20
      [] rule_name = "SPEAKING_TOO_SOFT" -> 25
      [] rule_name = "INTERRUPTING_CUSTOMER" -> 15
      [] rule_name = "TOO_MUCH_SILENCE" -> 10

ThrottledRules == {"SPEAKING_TOO_FAST", "SPEAKING_TOO_LOUD", "SPEAKING_TOO_SOFT",
                   "INTERRUPTING_CUSTOMER", "TOO_MUCH_SILENCE"}

\* The step is a call of evaluate_session on the active session.
EvaluationStep == last'.op = "evaluate" /\ is_active

\* The step processes a chunk with a payload on the given track of the active
\* session.
ChunkStep(track) ==
    /\ last'.op = "media"
    /\ last'.stream_sid = session_stream_sid
    /\ last'.track = track
    /\ last'.payload # NoPayload
    /\ is_active

\* The rule's condition holds and its cooldown has elapsed, in this state.
Eligible(rule_name) ==
    /\ rule_evaluate(rule_name, active_rules, now)
    /\ can_trigger(rule_name, active_rules_get(active_rules, rule_name), now)

\* The rule's predicate raises no exception in the evaluation of this step.
Returns(rule_name) == rule_name \notin last'.raising

\* The rule has never fired or fired at least its stated cooldown ago.
CooldownElapsed(rule_name) ==
    \/ rule_name \notin DOMAIN active_rules
    \/ now - active_rules[rule_name] >= ClaimedCooldown(rule_name)

\* The rules before position i of the stated order.
Earlier(i) == {ClaimedOrder[j] : j \in 1..(i - 1)}

\* The latest chunk of a buffer is speech (louder than -40 dB).
LatestIsSpeech(buffer) == buffer # <<>> /\ buffer[Len(buffer)] > -40

\* C1: two successive firings of the same rule in the session are at least
\* that rule's cooldown apart (30 s too fast, 20 s too loud, 25 s too soft,
\* 15 s interrupting, 10 s excess silence): a rule fired by an evaluation had
\* never fired, or fired at least its cooldown before.
C1_CooldownBetweenFirings ==
    (last.op = "evaluate" /\ last.suggestions # <<>>) =>
        \A i \in DOMAIN last.suggestions :
            (last.suggestions[i] \in ThrottledRules /\ last.last_trigger_time # 0) =>
                now - last.last_trigger_time >= ClaimedCooldown(last.suggestions[i])

\* An evaluation has just fired the silence rule for the second time.
C1_Witness ==
    /\ last.op = "evaluate"
    /\ last.suggestions = <<"TOO_MUCH_SILENCE">>
    /\ last.last_trigger_time # 0

\* C2: one call of evaluate_session creates at most one suggestion and records
\* a firing for at most one rule.
C2_AtMostOneFiring ==
    [][last'.op = "evaluate" =>
        /\ Len(last'.suggestions) <= 1
        /\ Cardinality({r \in DOMAIN active_rules' :
                           active_rules_get(active_rules, r) # active_rules'[r]}) <= 1
      ]_vars

\* An evaluation fired one rule while the condition of another rule held with
\* its cooldown elapsed.
C2_Witness ==
    /\ last.op = "evaluate"
    /\ Len(last.suggestions) = 1
    /\ DOMAIN active_rules = {"TEST_RULE"}
    /\ Eligible("TOO_MUCH_SILENCE")

\* C3: each channel buffer holds at most
\* sliding_window_seconds * 1000 / audio_chunk_size_ms chunks.
C3_BufferWithinWindow ==
    /\ Len(agent_audio_buffer) <= (sliding_window_seconds * 1000) \div audio_chunk_size_ms
    /\ Len(customer_audio_buffer) <= (sliding_window_seconds * 1000) \div audio_chunk_size_ms

\* C4: a chunk processed for a channel whose buffer is at the window bound
\* evicts exactly the oldest chunk: the buffer becomes its tail followed by
\* the new chunk.
C4_EvictsOldest ==
    [][/\ (ChunkStep("outbound") /\ Len(agent_audio_buffer) = max_chunks) =>
            agent_audio_buffer' =
                Append(Tail(agent_audio_buffer), b64decode(last'.payload))
       /\ (ChunkStep("inbound") /\ Len(customer_audio_buffer) = max_chunks) =>
            customer_audio_buffer' =
                Append(Tail(customer_audio_buffer), b64decode(last'.payload))
      ]_vars

\* C5: after a chunk with a payload is processed for a channel of the active
\* session, that channel's metrics are the features extracted from the chunk
\* and the channel's buffer, and the last-update time is the time of processing.
C5_MetricsFollowChunk ==
    [][/\ ChunkStep("outbound") =>
            /\ metrics'.agent = extract_audio_features(b64decode(last'.payload),
                                                       agent_audio_buffer')
            /\ metrics'.last_update_time = now
       /\ ChunkStep("inbound") =>
            /\ metrics'.customer = extract_audio_features(b64decode(last'.payload),
                                                          customer_audio_buffer')
            /\ metrics'.last_update_time = now
      ]_vars

\* C6: the interruption counter goes up by exactly one with every agent
\* (outbound) chunk processed while the customer's last-known speaking flag,
\* the flag of the customer's latest chunk, is true; every other step leaves
\* it unchanged.
C6_InterruptionCounter ==
    [][IF ChunkStep("outbound") /\ LatestIsSpeech(customer_audio_buffer)
       THEN metrics'.interruptions = metrics.interruptions + 1
       ELSE metrics'.interruptions = metrics.interruptions
      ]_vars

\* C7: once the agent's latest chunk yields a loudness above the too-loud
\* threshold with the speaking flag set, an evaluation fires SPEAKING_TOO_LOUD
\* (unless it fires a rule earlier in the order) when the rule's 20 s cooldown
\* has elapsed, and does not fire it when it has not.
C7_TooLoudScenario ==
    [][(/\ EvaluationStep
        /\ LatestIsSpeech(agent_audio_buffer)
        /\ agent_audio_buffer[Len(agent_audio_buffer)] > agent_volume_threshold_loud)
       => IF CooldownElapsed("SPEAKING_TOO_LOUD")
          THEN /\ last'.suggestions # <<>>
               /\ last'.suggestions[1] \in Earlier(3) \cup {"SPEAKING_TOO_LOUD"}
          ELSE last'.suggestions # <<"SPEAKING_TOO_LOUD">>
      ]_vars

\* C8: with the latest chunks of both channels speech, an evaluation fires
\* INTERRUPTING_CUSTOMER (unless it fires a rule earlier in the order) once
\* its 15 s cooldown has elapsed, and every agent chunk processed in that
\* situation raises the interruption counter, in cooldown or not.
C8_InterruptingScenario ==
    [][/\ (/\ EvaluationStep
           /\ LatestIsSpeech(agent_audio_buffer)
           /\ LatestIsSpeech(customer_audio_buffer)
           /\ CooldownElapsed("INTERRUPTING_CUSTOMER"))
          => /\ last'.suggestions # <<>>
             /\ last'.suggestions[1] \in Earlier(5) \cup {"INTERRUPTING_CUSTOMER"}
       /\ (/\ ChunkStep("outbound")
           /\ b64decode(last'.payload) > -40
           /\ LatestIsSpeech(customer_audio_buffer))
          => metrics'.interruptions > metrics.interruptions
      ]_vars

\* Neither channel is speaking and the last metrics update is longer ago
\* than the silence threshold.
SilentTooLong ==
    /\ ~metrics.agent.is_speaking
    /\ ~metrics.customer.is_speaking
    /\ now - metrics.last_update_time > silence_threshold_seconds

\* C9 as stated: whenever the session has been silent for longer than the
\* silence threshold, an evaluation fires TOO_MUCH_SILENCE unless it fires a
\* rule earlier in the order.
C9_SilenceFiresAlways ==
    [][(EvaluationStep /\ SilentTooLong /\ Returns("TOO_MUCH_SILENCE")) =>
          /\ last'.suggestions # <<>>
          /\ last'.suggestions[1] \in Earlier(6) \cup {"TOO_MUCH_SILENCE"}
      ]_vars

\* C9, amended: whenever the session has been silent for longer than the
\* silence threshold and TOO_MUCH_SILENCE has never fired or fired at least
\* 10 s ago, an evaluation fires TOO_MUCH_SILENCE unless it fires a rule
\* earlier in the order.
C9_SilenceFiresAfterCooldown ==
    [][(/\ EvaluationStep
        /\ SilentTooLong
        /\ Returns("TOO_MUCH_SILENCE")
        /\ CooldownElapsed("TOO_MUCH_SILENCE")) =>
          /\ last'.suggestions # <<>>
          /\ last'.suggestions[1] \in Earlier(6) \cup {"TOO_MUCH_SILENCE"}
      ]_vars

\* A session that never received a chunk, older than the silence threshold,
\* has just had TOO_MUCH_SILENCE fired by an evaluation.
C9_Witness ==
    /\ agent_audio_buffer = <<>>
    /\ customer_audio_buffer = <<>>
    /\ now - created_at > silence_threshold_seconds
    /\ last.op = "evaluate"
    /\ last.suggestions = <<"TOO_MUCH_SILENCE">>

\* The positions of the stated order whose rule is eligible in the evaluation
\* of this step: its predicate returns, its condition holds and its cooldown
\* has elapsed.
EligiblePositions ==
    {i \in DOMAIN ClaimedOrder : Returns(ClaimedOrder[i]) /\ Eligible(ClaimedOrder[i])}

\* C10: when several rules have their condition holding and their cooldown
\* elapsed in one evaluation, the rule fired is the earliest of them in the
\* order liveness probe, too fast, too loud, too soft, interrupting, excess
\* silence.
C10_EarliestRuleFires ==
    [][(EvaluationStep /\ Cardinality(EligiblePositions) >= 2) =>
          last'.suggestions =
              <<ClaimedOrder[CHOOSE i \in EligiblePositions :
                                \A j \in EligiblePositions : i <= j]>>
      ]_vars

\* An evaluation fired the liveness probe at a moment when the excess-silence
\* rule, later in the order, was eligible too.
C10_Witness ==
    /\ last.op = "evaluate"
    /\ last.suggestions = <<"TEST_RULE">>
    /\ last.raising = {}
    /\ last_suggestion_type = "TEST_RULE"
    /\ rule_evaluate("TOO_MUCH_SILENCE", active_rules, now)
    /\ "TOO_MUCH_SILENCE" \notin DOMAIN active_rules

\* C11: the liveness probe fires only on a session that has been active for
\* at least 3 s and whose cooldown map has no entry for it, and the entry an
\* earlier firing made is never removed: the probe fires at most once.
TestRuleFires == last'.op = "evaluate" /\ last'.suggestions = <<"TEST_RULE">>

C11_ProbeOnceAfterDelay ==
    [][/\ TestRuleFires =>
            /\ "TEST_RULE" \notin DOMAIN active_rules
            /\ now - created_at >= 3
       /\ "TEST_RULE" \in DOMAIN active_rules =>
            /\ "TEST_RULE" \in DOMAIN active_rules'
            /\ active_rules'["TEST_RULE"] = active_rules["TEST_RULE"]
      ]_vars

\* An evaluation more than 20 s (the cooldown the throttler applies to the
\* probe) after the probe fired left the probe alone.
C11_Witness ==
    /\ last.op = "evaluate"
    /\ is_active
    /\ "TEST_RULE" \in DOMAIN active_rules
    /\ now - active_rules["TEST_RULE"] >= cooldown_of("TEST_RULE")
    /\ last.suggestions # <<"TEST_RULE">>

\* C16: a chunk event for a stream without session, or for an inactive
\* session, changes nothing of the session.
C16_DroppedChunk ==
    [][(/\ last'.op = "media"
        /\ \/ ~get_session_by_stream_sid(last'.stream_sid)
           \/ ~is_active)
       => UNCHANGED session_vars
      ]_vars

\* A chunk with payload arrived for the stream of the session after the
\* session had taken audio and had been ended.
C16_Witness ==
    /\ last.op = "media"
    /\ last.stream_sid = session_stream_sid
    /\ last.payload # NoPayload
    /\ ~is_active
    /\ Len(agent_audio_buffer) > 0

\* C18: an evaluation in which predicates raise returns normally, fires none
\* of the raising rules, and fires a rule whenever one whose predicate
\* returns is eligible.
C18_RaisingRuleSkipped ==
    [][(EvaluationStep /\ last'.raising # {}) =>
            /\ ~last'.raised
            /\ \A rule_name \in last'.raising : last'.suggestions # <<rule_name>>
            /\ \A rule_name \in last'.raising :
                   active_rules_get(active_rules', rule_name)
                       = active_rules_get(active_rules, rule_name)
            /\ EligiblePositions # {} => Len(last'.suggestions) = 1
      ]_vars

\* The probe's predicate raised at its first eligible evaluation and the
\* excess-silence rule, last in the order, fired in the same call.
C18_Witness ==
    /\ last.op = "evaluate"
    /\ last.raising = {"TEST_RULE"}
    /\ ~last.raised
    /\ last.suggestions = <<"TOO_MUCH_SILENCE">>
    /\ "TEST_RULE" \notin DOMAIN active_rules
    /\ now - created_at >= 3

\* C15: every rule of the fixed rule set has an entry in the message table,
\* and no suggestion the engine created carries the fallback message.
C15_NoFallbackMessage ==
    /\ \A i \in DOMAIN ALL_RULES : ALL_RULES[i] \in DOMAIN SUGGESTION_MESSAGES
    /\ \A i \in DOMAIN last.created :
          /\ last.created[i].message # FallbackMessage.message
          /\ last.created[i].message = SUGGESTION_MESSAGES[last.created[i].type].message
          /\ last.created[i].severity = SUGGESTION_MESSAGES[last.created[i].type].severity

\* The engine created the suggestion of the excess-silence rule, with the
\* message and the severity of its table entry.
C15_Witness ==
    /\ last.op = "evaluate"
    /\ Len(last.created) = 1
    /\ last.created[1].type = "TOO_MUCH_SILENCE"
    /\ last.created[1].severity = "medium"
    /\ last.created[1].timestamp = now

\* The cooldown the throttler is stated to apply: the table value of a rule
\* id it lists, 20 s for any other.
ClaimedThrottlerCooldown(rule_name) ==
    IF rule_name \in ThrottledRules THEN ClaimedCooldown(rule_name) ELSE 20

\* The cooldown the rule table gives every rule of the fixed rule set.
ClaimedRuleCooldown(rule_name) ==
    IF rule_name = "TEST_RULE" THEN 60 ELSE ClaimedCooldown(rule_name)

\* C12: for a rule of the fixed rule set that has fired, the throttler lets
\* it trigger exactly when the cooldown of the rule table has elapsed, which
\* is also the cooldown_seconds the rule was constructed with.
C12_ThrottlerUsesRuleCooldown ==
    (throttle.rule_name \in {ClaimedOrder[i] : i \in DOMAIN ClaimedOrder}) =>
        /\ cooldown_seconds(throttle.rule_name) = ClaimedRuleCooldown(throttle.rule_name)
        /\ throttle.last_trigger_time # 0 =>
              throttle.can_trigger =
                  (throttle.current_time - throttle.last_trigger_time
                      >= ClaimedRuleCooldown(throttle.rule_name))

\* C13: can_trigger is true exactly when the last trigger time is 0 or the
\* cooldown (table value, 20 s for an id the table does not list) has elapsed;
\* so it is true for a rule that never fired and false right after a trigger.
C13_CanTriggerExactly ==
    /\ throttle.can_trigger =
          (\/ throttle.last_trigger_time = 0
           \/ throttle.current_time - throttle.last_trigger_time
                  >= ClaimedThrottlerCooldown(throttle.rule_name))
    /\ throttle.last_trigger_time = 0 => throttle.can_trigger
    /\ (/\ throttle.last_trigger_time # 0
        /\ throttle.current_time = throttle.last_trigger_time) => ~throttle.can_trigger

\* The unlisted rule id was checked exactly 20 s after a trigger at a non-zero
\* time and may trigger again.
C13_Witness ==
    /\ throttle.rule_name = "UNLISTED_RULE"
    /\ throttle.last_trigger_time > 2
    /\ throttle.current_time - throttle.last_trigger_time = 20
    /\ throttle.can_trigger

\* C14: the remaining cooldown is never negative, is 0 once the cooldown has
\* elapsed, and does not grow while the current time advances for the same
\* rule and last trigger time.
C14_RemainingDecreasesToZero ==
    /\ [](/\ throttle.remaining >= 0
          /\ (throttle.current_time - throttle.last_trigger_time
                 >= ClaimedThrottlerCooldown(throttle.rule_name))
             => throttle.remaining = 0)
    /\ [][(/\ throttle'.rule_name = throttle.rule_name
           /\ throttle'.last_trigger_time = throttle.last_trigger_time
           /\ throttle'.current_time >= throttle.current_time)
          => throttle'.remaining <= throttle.remaining
         ]_vars

\* A rule was checked after a trigger, when its cooldown had long elapsed:
\* nothing remains.
C14_Witness ==
    /\ throttle.rule_name = "TOO_MUCH_SILENCE"
    /\ throttle.last_trigger_time > 2
    /\ throttle.current_time - throttle.last_trigger_time > 10
    /\ throttle.remaining = 0
    /\ throttle.can_trigger

\* The loop's step is the turn of session_id in the for loop.
TurnOf(session_id) ==
    /\ loop.pc = "iterate"
    /\ Head(loop.remaining) = session_id
    /\ loop'.remaining = Tail(loop.remaining)

\* C17: the turn of an inactive session emits no suggestion and leaves the
\* session's cooldown map and last-suggestion fields as they are, also for a
\* session that was active when the tick enumerated it; every suggestion
\* the loop emits is for a session active at that moment.
C17_InactiveNeverEmits ==
    [][\A session_id \in SessionIds :
          /\ (TurnOf(session_id) /\ ~sessions[session_id].is_active) =>
                /\ sessions'[session_id] = sessions[session_id]
                /\ session_id \notin loop'.emitted
                /\ loop'.pc # "send_json"
          /\ (session_id \in loop'.emitted /\ session_id \notin loop.emitted) =>
                sessions[session_id].is_active
      ]_vars

\* A session that the tick enumerated as active was ended while the delivery
\* for the other session was awaited; its turn, at a time when the probe was
\* due for it, left it alone.
C17_Witness ==
    /\ loop.active_sessions = SessionOrder
    /\ "CA-a" \in loop.emitted
    /\ "CA-b" \in DOMAIN loop.outcome
    /\ loop.outcome["CA-b"] = "none"
    /\ ~sessions["CA-b"].is_active
    /\ sessions["CA-b"].active_rules = <<>>
    /\ now - created_at >= 3

\* C19: when a tick is over, every session it enumerated has had its turn,
\* whatever happened in the turns of the others: an error, a failed delivery.
C19_OthersStillServed ==
    loop.pc = "sleep" =>
        /\ \A i \in DOMAIN loop.active_sessions :
              loop.active_sessions[i] \in DOMAIN loop.outcome
        /\ loop.remaining = <<>>

\* In one tick the turn of the first session ended with an error or a failed
\* delivery, and the suggestion of the second was delivered.
C19_Witness ==
    /\ loop.pc = "sleep"
    /\ loop.active_sessions = SessionOrder
    /\ loop.outcome["CA-a"] \in {"error", "send_failed"}
    /\ loop.outcome["CA-b"] = "delivered"

\* C20: while the delivery of one session's suggestion is pending, the loop
\* can take the turn of the next session of the tick.
C20_PendingDeliveryNoDelay ==
    (loop.pc = "send_json" /\ loop.remaining # <<>>) =>
        ENABLED (\E fails \in BOOLEAN : evaluate_next(fails))

\* The loop's step ends the delivery for its current session in failure.
DeliveryFails ==
    /\ loop.pc \in {"send_json", "close"}
    /\ loop' # loop
    /\ loop'.pc \in {"close", "sleep", "iterate"}
    /\ loop.current \in DOMAIN loop'.outcome => loop'.outcome[loop.current] # "delivered"

\* C21: a failing delivery leaves the session as the evaluation committed
\* it (cooldown entry and last-suggestion fields of the firing), and the
\* loop hands a suggestion to the sink only from an evaluation in which the
\* rule had never fired or its cooldown had elapsed: nothing is sent again.
C21_FailedDeliveryStaysCommitted ==
    [][/\ DeliveryFails =>
            /\ sessions' = sessions
            /\ LET session == sessions'[loop.current]
               IN  /\ session.last_suggestion_type \in DOMAIN session.active_rules
                   /\ session.active_rules[session.last_suggestion_type]
                          = session.last_suggestion_time
       /\ \A session_id \in SessionIds :
             (session_id \in loop'.emitted /\ session_id \notin loop.emitted) =>
                 LET rule_name == sessions'[session_id].last_suggestion_type
                     fired == active_rules_get(sessions[session_id].active_rules, rule_name)
                 IN  /\ TurnOf(session_id)
                     /\ \/ fired = 0
                        \/ now - fired >= ClaimedThrottlerCooldown(rule_name)
      ]_vars

\* The delivery of the probe's suggestion failed, and the session keeps the
\* firing: the probe's cooldown entry and the last-suggestion fields.
C21_Witness ==
    /\ "CA-a" \in DOMAIN loop.outcome
    /\ loop.outcome["CA-a"] = "send_failed"
    /\ "CA-a" \notin ui_connections
    /\ sessions["CA-a"].last_suggestion_type = "TEST_RULE"
    /\ sessions["CA-a"].last_suggestion_time = now
    /\ active_rules_get(sessions["CA-a"].active_rules, "TEST_RULE") = now

C23_StopInterruptsLoop ==
    /\ [][loop.pc \in {"cancelled", "stopped"} =>
             /\ loop'.pc \in {"cancelled", "stopped"}
             /\ sessions' = sessions
             /\ now' = now
             /\ \A session_id \in SessionIds : ~TurnOf(session_id)
         ]_vars
    /\ (loop.pc = "cancelled") ~> (loop.pc = "stopped")

\* The task ended while a delivery was awaited and a session of the tick
\* had not had its turn.
C23_Witness ==
    /\ loop.pc = "stopped"
    /\ loop.current # "-"
    /\ loop.remaining # <<>>

\* The active sessions the manager holds for the call.
ActiveSessionsOf(call_sid) ==
    {session \in sessions_of_call(call_sid) : session.is_active}

\* Twilio has reported the call as begun and not yet as ended.
CallIsActive(call_sid) ==
    call_state[call_sid].begun /\ ~call_state[call_sid].ended

ChunkFor(session_id) ==
    /\ last'.op = "media"
    /\ last'.stream_sid = sessions[session_id].stream_sid
    /\ last'.payload # NoPayload
    /\ \/ last' # last
       \/ \E other \in SessionIds : BufferedChunks(other)' > BufferedChunks(other)

\* C25: a chunk processed for one session and the evaluation of one session
\* leave every field of every other session as it is (buffers, metrics,
\* interruption counter, cooldown map, last-suggestion fields), and the
\* liveness probe that is due for a session by that session's own cooldown
\* map fires on its turn whatever the other session's map holds.
C25_SessionsIndependent ==
    [][\A session_id \in SessionIds :
          /\ (ChunkFor(session_id) \/ TurnOf(session_id)) =>
                \A other \in SessionIds \ {session_id} :
                    sessions'[other] = sessions[other]
          /\ (/\ TurnOf(session_id)
              /\ sessions[session_id].is_active
              /\ now - created_at >= 3
              /\ "TEST_RULE" \notin DOMAIN sessions[session_id].active_rules) =>
                /\ "TEST_RULE" \in DOMAIN sessions'[session_id].active_rules
                /\ sessions'[session_id].active_rules["TEST_RULE"] = now
      ]_vars

\* The probe has fired for one session and, a second later and inside the
\* cooldown of that firing, for the other; a chunk was processed for the
\* first session only.
C25_Witness ==
    /\ "TEST_RULE" \in DOMAIN sessions["CA-a"].active_rules
    /\ "TEST_RULE" \in DOMAIN sessions["CA-b"].active_rules
    /\ sessions["CA-a"].active_rules["TEST_RULE"] = 4
    /\ sessions["CA-b"].active_rules["TEST_RULE"] = 5
    /\ sessions["CA-a"].customer_audio_buffer = <<-10>>
    /\ BufferedChunks("CA-b") = 0

\* C26: the two paths write disjoint session state: a call of
\* evaluate_session leaves the buffers and the metrics (channel metrics,
\* interruption counter, last-update time) as they are, and the processing
\* of a chunk leaves the cooldown map and the last-suggestion type and time
\* as they are.
C26_DisjointWrites ==
    [][/\ last'.op = "evaluate" =>
            UNCHANGED <<agent_audio_buffer, customer_audio_buffer, metrics>>
       /\ last'.op = "media" =>
            UNCHANGED <<active_rules, last_suggestion_time, last_suggestion_type>>
      ]_vars

\* A customer chunk has just been processed on a session that holds an
\* agent chunk from before and whose evaluations have fired both rules.
C26_Witness ==
    /\ last.op = "media"
    /\ last.stream_sid = session_stream_sid
    /\ last.track = "inbound"
    /\ customer_audio_buffer = <<-10>>
    /\ agent_audio_buffer # <<>>
    /\ DOMAIN active_rules = {"TEST_RULE", "TOO_MUCH_SILENCE"}
    /\ last_suggestion_type = "TOO_MUCH_SILENCE"
    /\ is_active

\* The chunk decodes to no sample: it has no bytes, or ulaw2lin rejects it.
CarriesNoSamples(audio_chunk) == audio_chunk \in {EmptyChunk, UndecodableChunk}

\* C27: for a chunk that is malformed or decodes to an empty sample
\* sequence, extract_audio_features returns the silence defaults (-60, 0,
\* not speaking) whatever the window holds, and the processing of such a
\* chunk returns to its caller without an exception and leaves the metrics
\* of the chunk's channel at the silence defaults.
C27_NoSamplesGivesSilenceDefaults ==
    [][/\ CarriesNoSamples(features'.audio_chunk) =>
            features'.result = [volume_db |-> -60, wpm |-> 0, is_speaking |-> FALSE]
       /\ \A track \in Tracks :
            (ChunkStep(track) /\ CarriesNoSamples(b64decode(last'.payload))) =>
                /\ ~last'.raised
                /\ (IF track = "inbound" THEN metrics'.customer ELSE metrics'.agent)
                       = [volume_db |-> -60, wpm |-> 0, is_speaking |-> FALSE]
      ]_vars

\* extract_audio_features was handed an empty chunk after two loud ones,
\* and the handler an undecodable customer chunk after an empty agent chunk.
C27_Witness ==
    /\ features.audio_chunk = EmptyChunk
    /\ features.audio_buffer = <<-10, -10>>
    /\ last.op = "media"
    /\ last.track = "inbound"
    /\ last.payload = <<UndecodableChunk>>
    /\ agent_audio_buffer = <<EmptyChunk>>
    /\ customer_audio_buffer = <<UndecodableChunk>>

\* The rule's condition holds while its cooldown runs, in this state.
InCooldown(rule_name) ==
    /\ rule_evaluate(rule_name, active_rules, now)
    /\ ~can_trigger(rule_name, active_rules_get(active_rules, rule_name), now)

\* C28: in one call of evaluate_session a rule whose condition holds while
\* its cooldown runs does not fire and keeps its cooldown entry; the first
\* rule of the order whose condition holds and whose cooldown has elapsed
\* fires in that call, also when it comes after such a skipped rule; and a
\* call in which no rule is in that position changes nothing of the session.
C28_SkippedRuleDoesNotEndTheCall ==
    [][EvaluationStep =>
          /\ \A i \in DOMAIN ClaimedOrder :
                InCooldown(ClaimedOrder[i]) =>
                    /\ last'.suggestions # <<ClaimedOrder[i]>>
                    /\ ClaimedOrder[i] \in DOMAIN active_rules'
                    /\ active_rules'[ClaimedOrder[i]] = active_rules[ClaimedOrder[i]]
          /\ \A i \in DOMAIN ClaimedOrder, j \in DOMAIN ClaimedOrder :
                (/\ i < j
                 /\ InCooldown(ClaimedOrder[i])
                 /\ Eligible(ClaimedOrder[j])
                 /\ \A rule_name \in Earlier(j) : ~Eligible(rule_name)) =>
                    /\ last'.suggestions = <<ClaimedOrder[j]>>
                    /\ active_rules'[ClaimedOrder[j]] = now
          /\ (\A i \in DOMAIN ClaimedOrder : ~Eligible(ClaimedOrder[i])) =>
                /\ last'.suggestions = <<>>
                /\ UNCHANGED session_vars
      ]_vars

\* The agent is loud and both speak: the too-loud rule fired a second ago
\* and is in its cooldown, and the call went on to fire the interruption
\* rule.
C28_Witness ==
    /\ last.op = "evaluate"
    /\ last.suggestions = <<"INTERRUPTING_CUSTOMER">>
    /\ rule_evaluate("SPEAKING_TOO_LOUD", active_rules, now)
    /\ "SPEAKING_TOO_LOUD" \in DOMAIN active_rules
    /\ active_rules["SPEAKING_TOO_LOUD"] = now - 1
    /\ active_rules["INTERRUPTING_CUSTOMER"] = now

\* C29: when a call of evaluate_session at time t fires rule R, afterwards
\* the session's cooldown entry for R is t, its last-suggestion type is R and
\* its last-suggestion time is t, the one suggestion returned carries rule
\* id R and timestamp t, and every other rule has the cooldown entry it had,
\* or none as before; when the call fires no rule, the cooldown map and the
\* last-suggestion fields are as before.
C29_FiringWritesOneEntry ==
    [][EvaluationStep =>
          IF last'.suggestions # <<>>
          THEN LET fired == last'.suggestions[1]
               IN  /\ Len(last'.suggestions) = 1
                   /\ Len(last'.created) = 1
                   /\ last'.created[1].type = fired
                   /\ last'.created[1].timestamp = now
                   /\ fired \in DOMAIN active_rules'
                   /\ active_rules'[fired] = now
                   /\ last_suggestion_type' = fired
                   /\ last_suggestion_time' = now
                   /\ DOMAIN active_rules' = DOMAIN active_rules \cup {fired}
                   /\ \A other \in DOMAIN active_rules \ {fired} :
                          active_rules'[other] = active_rules[other]
          ELSE UNCHANGED <<active_rules, last_suggestion_time, last_suggestion_type>>
      ]_vars

\* The excess-silence rule has just fired for the second time, at 15, on a
\* session on which the probe fired at 4: the probe's entry is kept.
C29_Witness ==
    /\ last.op = "evaluate"
    /\ last.suggestions = <<"TOO_MUCH_SILENCE">>
    /\ last.created[1].timestamp = 15
    /\ now = 15
    /\ DOMAIN active_rules = {"TEST_RULE", "TOO_MUCH_SILENCE"}
    /\ active_rules["TEST_RULE"] = 4
    /\ active_rules["TOO_MUCH_SILENCE"] = 15
    /\ last.last_trigger_time = 5
    /\ last_suggestion_type = "TOO_MUCH_SILENCE"
    /\ last_suggestion_time = 15

\* C30: the processing of a customer chunk leaves the agent buffer, the
\* agent metrics and the interruption counter as they are, the processing of
\* an agent chunk leaves the customer buffer and the customer metrics as
\* they are, and neither changes a field of the session other than the
\* buffers and the metrics.
C30_ChunkTouchesOneChannel ==
    [][/\ ChunkStep("inbound") =>
            /\ agent_audio_buffer' = agent_audio_buffer
            /\ metrics'.agent = metrics.agent
            /\ metrics'.interruptions = metrics.interruptions
       /\ ChunkStep("outbound") =>
            /\ customer_audio_buffer' = customer_audio_buffer
            /\ metrics'.customer = metrics.customer
       /\ (ChunkStep("inbound") \/ ChunkStep("outbound")) =>
            UNCHANGED <<is_active, active_rules, last_suggestion_time,
                        last_suggestion_type>>
      ]_vars

\* A loud agent chunk has just been processed on a session that holds a
\* loud customer chunk from before.
C30_Witness ==
    /\ last.op = "media"
    /\ last.stream_sid = session_stream_sid
    /\ last.track = "outbound"
    /\ last.payload = <<-10>>
    /\ is_active
    /\ agent_audio_buffer = <<-60, -10>>
    /\ customer_audio_buffer = <<-10>>

\* The metrics of the channel are those of one chunk: the speaking flag is
\* the one extract_audio_features derives from the loudness.
OfOneChunk(channel_metrics) ==
    channel_metrics.is_speaking = (channel_metrics.volume_db > -40)

\* C31: under every interleaving of chunk processing and evaluations, an
\* evaluation runs only when no call of _process_audio_chunk is between its
\* first write and its return, and the metrics it reads for each channel are
\* those of one chunk, never the loudness of one with the speaking flag of
\* another.
C31_ChunkAtomicForEvaluation ==
    [][last'.op = "evaluate" =>
          /\ chunk_task.pc = "idle"
          /\ OfOneChunk(metrics.agent)
          /\ OfOneChunk(metrics.customer)
      ]_vars

\* An evaluation has just run on a session for which a chunk of each
\* channel was processed.
C31_Witness ==
    /\ last.op = "evaluate"
    /\ last.suggestions = <<"TEST_RULE">>
    /\ chunk_task.pc = "idle"
    /\ agent_audio_buffer = <<-10>>
    /\ customer_audio_buffer = <<-10>>

\* C32: with the default thresholds SPEAKING_TOO_SOFT never fires on the
\* metrics the ingestion path writes: whatever the loudness of the agent's
\* chunks, the rule's condition is false in every state, no call of
\* evaluate_session returns it and it never gets a cooldown entry.
C32_TooSoftNeverFires ==
    /\ ~rule_evaluate("SPEAKING_TOO_SOFT", active_rules, now)
    /\ "SPEAKING_TOO_SOFT" \notin DOMAIN active_rules
    /\ last.suggestions # <<"SPEAKING_TOO_SOFT">>
    /\ last_suggestion_type # "SPEAKING_TOO_SOFT"

\* The agent's latest chunk is below the soft threshold, so it is not
\* flagged as speech, and a call of evaluate_session has run on it after
\* the probe rule was spent: it fired nothing.
C32_Witness ==
    /\ last.op = "evaluate"
    /\ last.suggestions = <<>>
    /\ "TEST_RULE" \in DOMAIN active_rules
    /\ agent_audio_buffer # <<>>
    /\ agent_audio_buffer[Len(agent_audio_buffer)] = -55
    /\ metrics.agent.volume_db < agent_volume_threshold_soft
    /\ ~metrics.agent.is_speaking

\* C33: while chunks with a payload keep arriving for the active session at
\* intervals of at most the silence threshold, as they do in every behaviour
\* of the steady stream, TOO_MUCH_SILENCE never fires: no evaluation returns
\* it and it never gets a cooldown entry.
C33_SteadyStreamKeepsSilenceRuleQuiet ==
    /\ last.suggestions # <<"TOO_MUCH_SILENCE">>
    /\ "TOO_MUCH_SILENCE" \notin DOMAIN active_rules

\* The step processes a chunk with a payload for the active session on a
\* track that is neither "inbound" nor "outbound".
OtherTrackStep ==
    /\ last'.op = "media"
    /\ last'.stream_sid = session_stream_sid
    /\ last'.track \notin Tracks
    /\ last'.payload # NoPayload
    /\ is_active

\* C34: a chunk of the active session whose track is neither "inbound" nor
\* "outbound" leaves both buffers, both channels' metrics and the
\* interruption counter as they were and sets the last-update time to the
\* time of processing; an evaluation within the silence threshold of that
\* time does not fire TOO_MUCH_SILENCE.
C34_OtherTrackOnlyRefreshes ==
    [][/\ OtherTrackStep =>
            /\ agent_audio_buffer' = agent_audio_buffer
            /\ customer_audio_buffer' = customer_audio_buffer
            /\ metrics'.agent = metrics.agent
            /\ metrics'.customer = metrics.customer
            /\ metrics'.interruptions = metrics.interruptions
            /\ metrics'.last_update_time = now'
       /\ (EvaluationStep /\ now - metrics.last_update_time <= silence_threshold_seconds) =>
            last'.suggestions # <<"TOO_MUCH_SILENCE">>
      ]_vars

\* More than the threshold after the session's creation a chunk without a
\* track has just been processed: the buffers hold only the chunk that came
\* before it, the last-update time is the present, and the evaluations that
\* followed fired the probe rule and then nothing.
C34_Witness ==
    /\ last.op = "evaluate"
    /\ last.suggestions = <<>>
    /\ "TEST_RULE" \in DOMAIN active_rules
    /\ "TOO_MUCH_SILENCE" \notin DOMAIN active_rules
    /\ now - created_at > silence_threshold_seconds
    /\ metrics.last_update_time = now
    /\ metrics.agent = DefaultAudioMetrics
    /\ metrics.customer = DefaultAudioMetrics
    /\ Len(agent_audio_buffer) + Len(customer_audio_buffer) = 1

\* C35: no rule is starved by the order: a rule whose condition holds and
\* whose cooldown has elapsed tick after tick is passed over, each time by a
\* rule earlier in the order, in at most as many ticks in a row as there are
\* rules before it, and fires in the tick after them.
C35_NoStarvationByOrder ==
    \A i \in DOMAIN ClaimedOrder : passed_over[ClaimedOrder[i]] <= i - 1

\* With the probe rule and the excess-silence rule both eligible, one tick
\* fired the probe rule and the next, at the same clock value, fired the
\* excess-silence rule.
C35_Witness ==
    /\ last.op = "evaluate"
    /\ last.suggestions = <<"TOO_MUCH_SILENCE">>
    /\ "TEST_RULE" \in DOMAIN active_rules
    /\ active_rules["TEST_RULE"] = now
    /\ active_rules["TOO_MUCH_SILENCE"] = now
    /\ passed_over["TOO_MUCH_SILENCE"] = 0

\* C36: the turn of a session that has no UI connection and in which a rule
\* fires writes the firing to the session (cooldown entry and last-suggestion
\* fields at the present time), hands nothing to a socket and ends without
\* an error; a UI client that connects changes neither the loop nor a
\* session, and whatever the loop hands to a socket is the suggestion fired
\* in that very turn: the suggestion of the unobserved firing is never sent.
C36_UnobservedFiringCommitsAndIsLost ==
    [][\A session_id \in SessionIds :
          /\ (/\ TurnOf(session_id)
              /\ session_id \notin ui_connections
              /\ session_id \in DOMAIN loop'.outcome
              /\ loop'.outcome[session_id] # "error"
              /\ session_evaluation(sessions[session_id], now).suggestions # <<>>) =>
                LET rule_name == session_evaluation(sessions[session_id], now).suggestions[1]
                IN  /\ rule_name \in DOMAIN sessions'[session_id].active_rules
                    /\ sessions'[session_id].active_rules[rule_name] = now
                    /\ sessions'[session_id].last_suggestion_type = rule_name
                    /\ sessions'[session_id].last_suggestion_time = now
                    /\ loop'.outcome[session_id] = "no_connection"
                    /\ loop'.pc # "send_json"
          /\ (TurnOf(session_id) /\ session_id \notin ui_connections
                  /\ sessions'[session_id] # sessions[session_id]) =>
                loop'.outcome[session_id] # "error"
          /\ (session_id \notin ui_connections /\ session_id \in ui_connections') =>
                /\ loop' = loop
                /\ sessions' = sessions
          /\ (loop'.pc = "send_json" /\ loop.pc # "send_json"
                  /\ loop'.current = session_id) =>
                /\ TurnOf(session_id)
                /\ session_id \in ui_connections
                /\ sessions'[session_id].last_suggestion_time = now
                /\ session_evaluation(sessions[session_id], now).suggestions # <<>>
      ]_vars

\* The probe fired for the first session while it had no UI connection; its
\* UI connected while the second session's suggestion was being delivered,
\* and the tick ended with nothing delivered to the first.
C36_Witness ==
    /\ loop.pc = "sleep"
    /\ "CA-a" \in DOMAIN loop.outcome
    /\ loop.outcome["CA-a"] = "no_connection"
    /\ "CA-b" \in DOMAIN loop.outcome
    /\ loop.outcome["CA-b"] = "delivered"
    /\ "CA-a" \in ui_connections
    /\ sessions["CA-a"].last_suggestion_type = "TEST_RULE"
    /\ sessions["CA-a"].active_rules["TEST_RULE"] = now

\* C37: under every interleaving of connect_ui, disconnect_ui and send_to_ui
\* for the session id no call of disconnect_ui raises, and the socket a call
\* removes from the registry is the one that was registered when it started.
C37_DisconnectRemovesItsOwnSocket ==
    [][\A coroutine \in UiCoroutines :
          /\ ui_calls'[coroutine].pc # "raised"
          /\ (ui_calls[coroutine].pc = "close" /\ ui_calls'[coroutine].pc = "returned") =>
                manager.ui_connection = ui_calls[coroutine].websocket
      ]_vars

\* The tasks of _run_loop that have not ended.
RunningTasks == {task \in DOMAIN loop_tasks : loop_tasks[task].at \notin TaskEnded}

\* C38: after any sequence of start() and stop() calls at most one task of
\* _run_loop has not ended, and is_running tells whether there is one; a
\* call of start() while the loop is running makes no task, and a call of
\* start() after a stop() that has returned makes exactly one, the only one
\* running then.
C38_AtMostOneLoopTask ==
    /\ [](/\ Cardinality(RunningTasks) <= 1
          /\ (lifecycle.pc = "returned") =>
                (processing_loop.is_running <=> RunningTasks # {}))
    /\ [][/\ (lifecycle'.op = "start" /\ lifecycle' # lifecycle
                   /\ processing_loop.is_running) =>
                loop_tasks' = loop_tasks
          /\ (lifecycle'.op = "start" /\ lifecycle.op = "stop") =>
                /\ lifecycle.pc = "returned"
                /\ RunningTasks = {}
                /\ loop_tasks' = Append(loop_tasks, NewTask)
                /\ RunningTasks' = {Len(loop_tasks')}
                /\ processing_loop'.loop_task = Len(loop_tasks')
          /\ Len(loop_tasks') > Len(loop_tasks) => ~processing_loop.is_running
         ]_vars

\* The loop was started, stopped and started again: the first task has
\* ended, the second is in its tick, and one more call of start() has
\* returned without making a task.
C38_Witness ==
    /\ Len(loop_tasks) = 2
    /\ loop_tasks[1].at \in TaskEnded
    /\ loop_tasks[2].at = "evaluate"
    /\ processing_loop = [is_running |-> TRUE, loop_task |-> 2]
    /\ lifecycle = [op |-> "start", pc |-> "returned", created |-> NoTask]

====
